---------------------------- MODULE Spec2Model ----------------------------
(***************************************************************************)
(* Calibration orchestration of PypeIt (pypeit/calibrations.py): the       *)
(* Calibrations object, its in-memory cache calib_dict, the product        *)
(* getters and run_the_steps.                                              *)
(*                                                                         *)
(* The object's fields are the variables.  A method is an operator from a  *)
(* snapshot of the object (the record Self) and the outcome of the         *)
(* external calls it makes (builders, disk, frame table) to the object     *)
(* after the call; the action of the method commits that record.           *)
(***************************************************************************)
EXTENDS Integers, Sequences, FiniteSets, TLC

VARIABLES
    calib_dict,       \* self.calib_dict : master key -> (master type -> data)
    master_key_dict,  \* self.master_key_dict : name -> master key
    ctx,              \* frame, det, calib_ID, par
    ctl,              \* steps, master_dir, save_masters, reuse_masters, qa_path
    attr,             \* the ms* / slits / wv_calib ... attributes of the object
    slitmask,         \* mask of the SlitTraceSet object cached under each key
    ret,              \* what the last call did: value, error, warnings, builder I/O
    run,              \* position of run_the_steps in self.steps (0: not running)
    used              \* number of calls of public methods made so far

vars == <<calib_dict, master_key_dict, ctx, ctl, attr, slitmask, ret, run, used>>

-----------------------------------------------------------------------------
(* Bounds of the model *)

\* calls of public methods (set_config, getters, run_the_steps) in a behaviour
MaxCalls == 3

\* the slits of the synthetic SlitTraceSet: its mask is a boolean array over them
SlitIds == {1, 2}
Masks == SUBSET SlitIds

-----------------------------------------------------------------------------
(* Values held by attributes and cache slots *)

\* kind: what it is; p: master type; k: master key it was made for; gen: which
\* instance under that key; m: mask bits; d: image data.  How an artifact was
\* made (loaded, built) is in the external calls of the call that made it.
Val(kind, p, k, gen, m) ==
    [kind |-> kind, p |-> p, k |-> k, gen |-> gen, m |-> m, d |-> <<>>]

\* Python None
None == Val("None", "", "", 0, {})
\* an attribute that was never assigned: reading it raises AttributeError
Unset == Val("Unset", "", "", 0, {})
\* the empty dict {} that _cached stores as a placeholder
EmptyDict == Val("Empty", "", "", 0, {})
\* an artifact produced by a builder
Art(p, k, gen) == Val("art", p, k, gen, {})
\* a boolean per-slit mask array
MaskArr(p, k, m) == Val("mask", p, k, 0, m)

IsNone(v) == v.kind = "None"

-----------------------------------------------------------------------------
(* The frame table (PypeItMetaData): rows, their frame type, the           *)
(* calibration groups of each row (the 'calib' column, comma separated)    *)
(* and the master key of each row.                                         *)

Rows == 0..8
Dets == {1}

FrameType == [r \in Rows |->
    CASE r \in {0, 1, 2} -> "science"
      [] r = 3 -> "arc"
      [] r = 4 -> "tilt"
      [] r = 5 -> "trace"
      [] r = 6 -> "pixelflat"
      [] r = 7 -> "bias"
      [] r = 8 -> "tilt"]

\* the 'calib' column, as the list of group ids the string names
CalibCol == [r \in Rows |->
    CASE r = 0 -> <<1>>
      [] r = 1 -> <<2>>
      [] r = 2 -> <<1, 2>>
      [] r = 3 -> <<1, 2>>
      [] r = 4 -> <<1>>
      [] r = 5 -> <<1, 2>>
      [] r = 6 -> <<1>>
      [] r = 7 -> <<1>>
      [] r = 8 -> <<2>>]

InGroup(r, g) == \E i \in 1..Len(CalibCol[r]) : CalibCol[r][i] = g

\* fitstbl.master_key(row, det): setup, calibration bits and detector
master_key(r, d) ==
    CASE CalibCol[r] = <<1>> -> "A_1_01"
      [] CalibCol[r] = <<2>> -> "A_2_01"
      [] OTHER -> "A_3_01"

Keys == {master_key(r, d) : r \in Rows, d \in Dets}

\* fitstbl.find_frames(ftype, calib_ID=g, index=True): rows in increasing order
RECURSIVE SortedSeq(_)
SortedSeq(S) ==
    IF S = {} THEN <<>>
    ELSE LET x == CHOOSE y \in S : \A z \in S : y <= z
         IN <<x>> \o SortedSeq(S \ {x})

find_frames(ftype, g) ==
    SortedSeq({r \in Rows : FrameType[r] = ftype /\ InGroup(r, g)})


-----------------------------------------------------------------------------
(* Parameters (CalibrationsPar): the entries the orchestrator reads.       *)
(*   reference    par['wavelengths']['reference']                          *)
(*   method       par['flatfield']['method']                               *)
(*   method_same  whether that string is the very object of the literal    *)
(*                'skip' the code compares it to with `is` (an interned    *)
(*                string is, one parsed from a file is not)                *)
(*   flatframe    par['flatfield']['frame']                                *)
(*   tweak_slits  par['flatfield']['tweak_slits']                          *)
(*   illumflatten par['flatfield']['illumflatten']                         *)
(*   bpm_usebias  par['bpm_usebias']                                       *)

Par(reference, method, method_same, flatframe, tweak, illum, usebias) ==
    [reference |-> reference, method |-> method, method_same |-> method_same,
     flatframe |-> flatframe, tweak_slits |-> tweak, illumflatten |-> illum,
     bpm_usebias |-> usebias]

DefaultPar == Par("arc", "bspline", FALSE, "pixelflat", FALSE, TRUE, FALSE)

PixelPar == [DefaultPar EXCEPT !.reference = "pixel"]
SkipPar == [DefaultPar EXCEPT !.method = "skip", !.method_same = TRUE]
SkipParsedPar == [DefaultPar EXCEPT !.method = "skip"]
UserFlatPar == [DefaultPar EXCEPT !.flatframe = "userflat.fits", !.tweak_slits = TRUE]
UseBiasPar == [DefaultPar EXCEPT !.bpm_usebias = TRUE, !.tweak_slits = TRUE]

\* Python None in an integer field (frame, det, calib_ID)
NoInt == 0 - 1

-----------------------------------------------------------------------------
(* The object *)

AttrNames == {"msarc", "msbias", "msbpm", "slits", "wavecalib", "tilts_dict",
              "mspixelflat", "msillumflat", "mswave", "mstilt", "wv_calib",
              "wv_maskslits", "wt_maskslits", "edges", "maskslits"}

\* the attributes _reset_internals sets to None
ResetNames == {"msarc", "msbias", "msbpm", "slits", "wavecalib", "tilts_dict",
               "mspixelflat", "msillumflat", "mswave"}

\* The object as one record; the methods below map such records.
Self == [calib_dict |-> calib_dict, master_key_dict |-> master_key_dict,
         ctx |-> ctx, ctl |-> ctl, attr |-> attr, slitmask |-> slitmask]

Commit(s) ==
    /\ calib_dict' = s.calib_dict
    /\ master_key_dict' = s.master_key_dict
    /\ ctx' = s.ctx
    /\ ctl' = s.ctl
    /\ attr' = s.attr
    /\ slitmask' = s.slitmask

\* the empty dict as a mapping
NoEntries == [x \in {} |-> None]

\* a _reset_internals that keeps the master keys
_reset_internals_keeps_keys(s) ==
    [s EXCEPT !.attr = [a \in AttrNames |-> IF a \in ResetNames THEN None ELSE @[a]],
              !.ctx.calib_ID = NoInt]

_reset_internals(s) ==
    [s EXCEPT !.attr = [a \in AttrNames |-> IF a \in ResetNames THEN None ELSE @[a]],
              !.ctx.calib_ID = NoInt,
              !.master_key_dict = NoEntries]

\* a list of steps with the arc before the bad pixel mask
steps_arc_first == <<"bias", "arc", "bpm", "tiltimg", "slits", "wv_calib", "tilts", "flats", "wave">>

\* MultiSlitCalibrations.default_steps()
default_steps == <<"bias", "bpm", "arc", "tiltimg", "slits", "wv_calib", "tilts", "flats", "wave">>

\* an __init__ that keeps save_masters as given when there is no caldir
Construct_keeps_save(caldir, qadir, save_arg, reuse_arg) ==
    _reset_internals(
        [calib_dict |-> NoEntries,
         master_key_dict |-> NoEntries,
         ctx |-> [frame |-> NoInt, det |-> NoInt, calib_ID |-> NoInt, par |-> DefaultPar],
         ctl |-> [steps |-> <<>>,
                  master_dir |-> caldir,
                  save_masters |-> save_arg,
                  reuse_masters |-> reuse_arg /\ caldir,
                  qa_path |-> qadir,
                  write_qa |-> qadir],
         attr |-> [a \in AttrNames |-> Unset],
         slitmask |-> NoEntries])

\* Calibrations.__init__(caldir, qadir, save_masters, reuse_masters); caldir and
\* qadir: whether the directory is given
Construct(caldir, qadir, save_arg, reuse_arg) ==
    _reset_internals(
        [calib_dict |-> NoEntries,
         master_key_dict |-> NoEntries,
         ctx |-> [frame |-> NoInt, det |-> NoInt, calib_ID |-> NoInt, par |-> DefaultPar],
         ctl |-> [steps |-> <<>>,
                  master_dir |-> caldir,
                  save_masters |-> save_arg /\ caldir,
                  reuse_masters |-> reuse_arg /\ caldir,
                  qa_path |-> qadir,
                  write_qa |-> qadir],
         attr |-> [a \in AttrNames |-> Unset],
         slitmask |-> NoEntries])

\* the argument steps=None of MultiSlitCalibrations.__init__
NoSteps == <<"None">>

\* a MultiSlitCalibrations that takes the default steps whatever it is given
MultiSlitCalibrations_fixed(caldir, qadir, reuse_arg, steps_arg) ==
    [Construct(caldir, qadir, TRUE, reuse_arg) EXCEPT !.ctl.steps = default_steps]

\* MultiSlitCalibrations.__init__(caldir, qadir, reuse_masters, steps): it does
\* not pass save_masters on, which is then True; steps is NoSteps or a list
MultiSlitCalibrations(caldir, qadir, reuse_arg, steps_arg) ==
    [Construct(caldir, qadir, TRUE, reuse_arg) EXCEPT
        !.ctl.steps = IF steps_arg = NoSteps THEN default_steps ELSE steps_arg]

-----------------------------------------------------------------------------
(* The result of a call: the object after it, the value returned (a tuple  *)
(* of values) or the error raised, the number of msgs.warn calls, the      *)
(* external calls made in order, and whether the value came from the cache *)

Ok(s, value, warns, io, hit) ==
    [s |-> s, err |-> "", value |-> value, warns |-> warns, io |-> io, hit |-> hit]

Raise(s, err, warns, io) ==
    [s |-> s, err |-> err, value |-> <<>>, warns |-> warns, io |-> io, hit |-> FALSE]

\* a SetAttr that also empties the calibration group
SetAttr_calib(s, a, v) == [s EXCEPT !.attr[a] = v, !.ctx.calib_ID = NoInt]

\* a SetAttr that leaves the edges where they are instead of emptying them
SetAttr_keeps_edges(s, a, v) ==
    IF a = "edges" /\ IsNone(v) THEN s ELSE [s EXCEPT !.attr[a] = v]

SetAttr(s, a, v) == [s EXCEPT !.attr[a] = v]

-----------------------------------------------------------------------------
(* Cache *)

\* a _cached that does not register a master key that is missing
_cached_noreg(s, master_type, mkey) ==
    IF mkey \notin DOMAIN s.calib_dict
    THEN [s |-> s, r |-> FALSE]
    ELSE IF master_type \in DOMAIN s.calib_dict[mkey]
    THEN [s |-> s, r |-> TRUE]
    ELSE [s |-> [s EXCEPT !.calib_dict[mkey] = (master_type :> EmptyDict) @@ @],
          r |-> FALSE]

\* a _cached that only looks: it registers neither the key nor the type
_cached_readonly(s, master_type, mkey) ==
    [s |-> s,
     r |-> mkey \in DOMAIN s.calib_dict /\ master_type \in DOMAIN s.calib_dict[mkey]]

\* a _cached that registers the key and the type but never reports a hit
_cached_miss(s, master_type, mkey) ==
    IF mkey \notin DOMAIN s.calib_dict
    THEN [s |-> [s EXCEPT !.calib_dict = (mkey :> NoEntries) @@ @], r |-> FALSE]
    ELSE IF master_type \in DOMAIN s.calib_dict[mkey]
    THEN [s |-> s, r |-> FALSE]
    ELSE [s |-> [s EXCEPT !.calib_dict[mkey] = (master_type :> EmptyDict) @@ @],
          r |-> FALSE]

_cached(s, master_type, mkey) ==
    IF mkey \notin DOMAIN s.calib_dict
    THEN [s |-> [s EXCEPT !.calib_dict = (mkey :> NoEntries) @@ @], r |-> FALSE]
    ELSE IF master_type \in DOMAIN s.calib_dict[mkey]
    THEN [s |-> s, r |-> TRUE]
    ELSE [s |-> [s EXCEPT !.calib_dict[mkey] = (master_type :> EmptyDict) @@ @],
          r |-> FALSE]

\* calib_dict[master_key_dict[name]][key] = d for each (key, d); KeyError when
\* name is not in master_key_dict or the master key is not in calib_dict
RECURSIVE StoreAll(_, _, _, _)
StoreAll(cd, mkey, types, data) ==
    IF types = <<>> \/ data = <<>> THEN cd
    ELSE StoreAll([cd EXCEPT ![mkey] = (Head(types) :> Head(data)) @@ @],
                  mkey, Tail(types), Tail(data))

\* an _update_cache that stores under every master key of the cache
RECURSIVE StoreEverywhere(_, _, _, _)
StoreEverywhere(cd, keys, types, data) ==
    IF keys = {} THEN cd
    ELSE LET k == CHOOSE x \in keys : TRUE
         IN  StoreEverywhere(StoreAll(cd, k, types, data), keys \ {k}, types, data)

_update_cache_all(s, name, types, data) ==
    IF types = <<>> \/ data = <<>> THEN [s |-> s, err |-> ""]
    ELSE IF name \notin DOMAIN s.master_key_dict
            \/ s.master_key_dict[name] \notin DOMAIN s.calib_dict
    THEN [s |-> s, err |-> "KeyError"]
    ELSE [s |-> [s EXCEPT !.calib_dict =
                     StoreEverywhere(@, DOMAIN s.calib_dict, types, data)],
          err |-> ""]

_update_cache(s, name, types, data) ==
    IF types = <<>> \/ data = <<>> THEN [s |-> s, err |-> ""]
    ELSE IF name \notin DOMAIN s.master_key_dict
            \/ s.master_key_dict[name] \notin DOMAIN s.calib_dict
    THEN [s |-> s, err |-> "KeyError"]
    ELSE [s |-> [s EXCEPT !.calib_dict =
                     StoreAll(@, s.master_key_dict[name], types, data)],
          err |-> ""]

-----------------------------------------------------------------------------
(* Checks *)

CtxField(s, item) ==
    CASE item = "det" -> s.ctx.det # NoInt
      [] item = "calib_ID" -> s.ctx.calib_ID # NoInt
      [] item = "par" -> TRUE

\* TRUE when every item is set; otherwise msgs.error is raised
_chk_set(s, items) == \A i \in 1..Len(items) : CtxField(s, items[i])

\* a _chk_objs that looks at the first item only
_chk_objs_first(s, items) ==
    IF items = <<>> THEN "True"
    ELSE IF s.attr[Head(items)].kind = "Unset" THEN "AttributeError"
    ELSE IF IsNone(s.attr[Head(items)]) THEN "False"
    ELSE "True"

\* "True", "False" (after two warnings) or "AttributeError" when the first
\* attribute that is not there at all comes before the first that is None
RECURSIVE _chk_objs(_, _)
_chk_objs(s, items) ==
    IF items = <<>> THEN "True"
    ELSE IF s.attr[Head(items)].kind = "Unset" THEN "AttributeError"
    ELSE IF IsNone(s.attr[Head(items)]) THEN "False"
    ELSE _chk_objs(s, Tail(items))

-----------------------------------------------------------------------------
(* Outcomes of the external calls a getter makes.                          *)
(*   found   a master file of the product is on disk                       *)
(*   ok      the build (or edge tracing) completes without raising         *)
(*   m       the per-slit mask a builder or a loaded file yields           *)
(*   user    where the user flat file is: "literal", "masterdir", "both",  *)
(*           "none"                                                        *)
(*   edges   the MasterEdges file exists                                   *)

Outcome(found, ok, m, user, edges) ==
    [found |-> found, ok |-> ok, m |-> m, user |-> user, edges |-> edges]

\* a builder without mask: master found, built, or build failed
Plain == {Outcome(TRUE, TRUE, {}, "none", FALSE), Outcome(FALSE, TRUE, {}, "none", FALSE),
          Outcome(FALSE, FALSE, {}, "none", FALSE)}
\* spectrograph.bpm: completes or raises
BpmOutcomes == {Outcome(FALSE, b, {}, "none", FALSE) : b \in BOOLEAN}
\* wavelength calibration: the mask is made after a load and after a run
WvOutcomes == {Outcome(f, TRUE, m, "none", FALSE) : f \in BOOLEAN, m \in Masks}
                \cup {Outcome(FALSE, FALSE, {}, "none", FALSE)}
\* tilts: the mask comes from run only
TiltOutcomes == {Outcome(FALSE, TRUE, m, "none", FALSE) : m \in Masks}
                \cup {Outcome(TRUE, TRUE, {}, "none", FALSE),
                      Outcome(FALSE, FALSE, {}, "none", FALSE)}
\* flats: master found or not, user file found or not, run completes or not
FlatOutcomes == {Outcome(f, b, {}, u, FALSE) :
                    f \in BOOLEAN, b \in BOOLEAN,
                    u \in {"literal", "masterdir", "both", "none"}}
\* slits: a master with its mask, a MasterEdges file, tracing completes or not
SlitOutcomes == {Outcome(TRUE, TRUE, m, "none", FALSE) : m \in Masks}
                \cup {Outcome(FALSE, b, {}, "none", e) : b \in BOOLEAN, e \in BOOLEAN}

\* Builder.load(): the master on disk when masters are reused and the file is
\* there, None otherwise
BuilderLoad(reuse, found, art) == IF reuse /\ found THEN art ELSE None

\* a from_master that finds no file
from_master_no_file(reuse, found, art) == None

\* SlitTraceSet.from_master(master_key, master_dir, reuse)
from_master(reuse, found, art) ==
    IF ~reuse THEN None
    ELSE IF ~found THEN None
    ELSE art

\* a KeyRow that is the frame being calibrated whatever the rows found
KeyRow_frame(s, rows) == s.ctx.frame

\* the row a master key is derived from: the first of the rows found, the
\* frame being calibrated when there is none
KeyRow(s, rows) == IF Len(rows) > 0 THEN rows[1] ELSE s.ctx.frame

-----------------------------------------------------------------------------
(* get_bias, get_arc, get_tiltimg: cache, else load, else build and save   *)

\* a LoadBuildStore that saves the master it has loaded
LoadBuildStore_resave(s, o, a, name, ptype, io) ==
    LET mkey == s.master_key_dict[name]
        loaded == BuilderLoad(s.ctl.reuse_masters, o.found, Art(ptype, mkey, 0))
        io1 == io \o <<<<"new", ptype>>, <<"load", ptype>>>>
        s1 == SetAttr(s, a, loaded)
    IN  IF ~IsNone(loaded)
        THEN LET u == _update_cache(s1, name, <<ptype>>, <<loaded>>)
                 ios == IF s.ctl.save_masters THEN Append(io1, <<"save", ptype>>) ELSE io1
             IN  IF u.err # "" THEN Raise(u.s, u.err, 0, ios)
                 ELSE Ok(u.s, <<loaded>>, 0, ios, FALSE)
        ELSE IF ~o.ok THEN Raise(s1, "build", 0, Append(io1, <<"build", ptype>>))
        ELSE LET built == Art(ptype, mkey, 0)
                 s2 == SetAttr(s1, a, built)
                 io2 == Append(io1, <<"build", ptype>>)
                 io3 == IF s.ctl.save_masters THEN Append(io2, <<"save", ptype>>) ELSE io2
                 u == _update_cache(s2, name, <<ptype>>, <<built>>)
             IN  IF u.err # "" THEN Raise(u.s, u.err, 0, io3)
                 ELSE Ok(u.s, <<built>>, 0, io3, FALSE)

\* from the builder's instantiation to the return; a is the attribute, name the
\* entry of master_key_dict, ptype the master type
LoadBuildStore(s, o, a, name, ptype, io) ==
    LET mkey == s.master_key_dict[name]
        loaded == BuilderLoad(s.ctl.reuse_masters, o.found, Art(ptype, mkey, 0))
        io1 == io \o <<<<"new", ptype>>, <<"load", ptype>>>>
        s1 == SetAttr(s, a, loaded)
    IN  IF ~IsNone(loaded)
        THEN LET u == _update_cache(s1, name, <<ptype>>, <<loaded>>)
             IN  IF u.err # "" THEN Raise(u.s, u.err, 0, io1)
                 ELSE Ok(u.s, <<loaded>>, 0, io1, FALSE)
        ELSE IF ~o.ok THEN Raise(s1, "build", 0, Append(io1, <<"build", ptype>>))
        ELSE LET built == Art(ptype, mkey, 0)
                 s2 == SetAttr(s1, a, built)
                 io2 == Append(io1, <<"build", ptype>>)
                 io3 == IF s.ctl.save_masters THEN Append(io2, <<"save", ptype>>) ELSE io2
                 u == _update_cache(s2, name, <<ptype>>, <<built>>)
             IN  IF u.err # "" THEN Raise(u.s, u.err, 0, io3)
                 ELSE Ok(u.s, <<built>>, 0, io3, FALSE)

\* from the master key assignment on
\* a KeyedImage that instantiates the builder and loads before it looks into
\* the cache
KeyedImage_loads(s, o, a, name, ptype, rows, io) ==
    LET mkey == master_key(KeyRow(s, rows), s.ctx.det)
        s1 == [s EXCEPT !.master_key_dict = (name :> mkey) @@ @]
        c == _cached(s1, ptype, mkey)
        io1 == io \o <<<<"new", ptype>>, <<"load", ptype>>>>
    IN  IF c.r
        THEN LET v == c.s.calib_dict[mkey][ptype]
             IN  Ok(SetAttr(c.s, a, v), <<v>>, 0, io1, TRUE)
        ELSE LoadBuildStore(c.s, o, a, name, ptype, io)

KeyedImage(s, o, a, name, ptype, rows, io) ==
    LET mkey == master_key(KeyRow(s, rows), s.ctx.det)
        s1 == [s EXCEPT !.master_key_dict = (name :> mkey) @@ @]
        c == _cached(s1, ptype, mkey)
    IN  IF c.r
        THEN LET v == c.s.calib_dict[mkey][ptype]
             IN  Ok(SetAttr(c.s, a, v), <<v>>, 0, io, TRUE)
        ELSE LoadBuildStore(c.s, o, a, name, ptype, io)

get_bias(s, o) ==
    IF ~_chk_set(s, <<"det", "calib_ID", "par">>) THEN Raise(s, "chk_set", 0, <<>>)
    ELSE KeyedImage(s, o, "msbias", "bias", "bias", find_frames("bias", s.ctx.calib_ID),
                    <<<<"find_frames", "bias">>>>)

\* a get_arc that requires the bias and the bad pixel mask
get_arc_needs_bias(s, o) ==
    IF _chk_objs(s, <<"msbias", "msbpm">>) # "True" THEN Raise(s, "objs", 2, <<>>)
    ELSE IF ~_chk_set(s, <<"det", "calib_ID", "par">>) THEN Raise(s, "chk_set", 0, <<>>)
    ELSE KeyedImage(s, o, "msarc", "arc", "arc", find_frames("arc", s.ctx.calib_ID),
                    <<<<"find_frames", "arc">>>>)

get_arc(s, o) ==
    IF ~_chk_set(s, <<"det", "calib_ID", "par">>) THEN Raise(s, "chk_set", 0, <<>>)
    ELSE KeyedImage(s, o, "msarc", "arc", "arc", find_frames("arc", s.ctx.calib_ID),
                    <<<<"find_frames", "arc">>>>)

\* a get_tiltimg that returns None when the context is not set
get_tiltimg_lenient(s, o) ==
    IF ~_chk_set(s, <<"det", "calib_ID", "par">>)
    THEN Ok(SetAttr(s, "mstilt", None), <<None>>, 0, <<>>, FALSE)
    ELSE LET tilt_rows == find_frames("tilt", s.ctx.calib_ID)
         IN  IF Len(tilt_rows) = 0
             THEN Raise(s, "no_tilt_frames", 0, <<<<"find_frames", "tilt">>>>)
             ELSE KeyedImage(s, o, "mstilt", "tilt", "tiltimg", tilt_rows,
                             <<<<"find_frames", "tilt">>>>)

\* a get_tiltimg that goes on with the frame being calibrated when the group
\* has no tilt frame
get_tiltimg_falls_back(s, o) ==
    IF ~_chk_set(s, <<"det", "calib_ID", "par">>) THEN Raise(s, "chk_set", 0, <<>>)
    ELSE KeyedImage(s, o, "mstilt", "tilt", "tiltimg", find_frames("tilt", s.ctx.calib_ID),
                    <<<<"find_frames", "tilt">>>>)

get_tiltimg(s, o) ==
    IF ~_chk_set(s, <<"det", "calib_ID", "par">>) THEN Raise(s, "chk_set", 0, <<>>)
    ELSE LET tilt_rows == find_frames("tilt", s.ctx.calib_ID)
         IN  IF Len(tilt_rows) = 0
             THEN Raise(s, "no_tilt_frames", 0, <<<<"find_frames", "tilt">>>>)
             ELSE KeyedImage(s, o, "mstilt", "tilt", "tiltimg", tilt_rows,
                             <<<<"find_frames", "tilt">>>>)

-----------------------------------------------------------------------------
(* get_bpm *)

get_bpm(s, o) ==
    IF ~_chk_set(s, <<"par", "det">>) THEN Raise(s, "chk_set", 0, <<>>)
    ELSE
    LET mkey == master_key(s.ctx.frame, s.ctx.det)
        s1 == [s EXCEPT !.master_key_dict = ("bpm" :> mkey) @@ @]
        c == _cached(s1, "bpm", mkey)
    IN  IF c.r
        THEN LET v == c.s.calib_dict[mkey]["bpm"]
             IN  Ok(SetAttr(c.s, "msbpm", v), <<v>>, 0, <<>>, TRUE)
        ELSE IF c.s.ctx.par.bpm_usebias /\ "bias" \notin DOMAIN c.s.master_key_dict
        THEN Raise(c.s, "KeyError", 0, <<>>)
        ELSE
        LET cb == IF c.s.ctx.par.bpm_usebias
                  THEN _cached(c.s, "bias", c.s.master_key_dict["bias"])
                  ELSE [s |-> c.s, r |-> FALSE]
            io1 == <<<<"build", "bpm">>>>
        IN  IF ~o.ok THEN Raise(cb.s, "build", 0, io1)
            ELSE LET built == Art("bpm", mkey, 0)
                     u == _update_cache(SetAttr(cb.s, "msbpm", built), "bpm",
                                        <<"bpm">>, <<built>>)
                 IN  IF u.err # "" THEN Raise(u.s, u.err, 0, io1)
                     ELSE Ok(u.s, <<built>>, 0, io1, FALSE)

-----------------------------------------------------------------------------
(* The shared SlitTraceSet: self.slits and the cache slot hold the same    *)
(* object, whose mask is slitmask[key of the object]                       *)

\* an OrMask that assigns the contribution to the mask
OrMask_assign(s, mval) ==
    IF s.attr.slits.kind # "art" THEN [s |-> s, err |-> "AttributeError"]
    ELSE IF mval.kind # "mask" THEN [s |-> s, err |-> "TypeError"]
    ELSE [s |-> [s EXCEPT !.slitmask[s.attr.slits.k] = mval.m], err |-> ""]

\* self.slits.mask |= mval
OrMask(s, mval) ==
    IF s.attr.slits.kind # "art" THEN [s |-> s, err |-> "AttributeError"]
    ELSE IF mval.kind # "mask" THEN [s |-> s, err |-> "TypeError"]
    ELSE [s |-> [s EXCEPT !.slitmask[s.attr.slits.k] = @ \cup mval.m], err |-> ""]

EdgesObj(mkey) == Art("edges", mkey, 0)

-----------------------------------------------------------------------------
(* get_slits(redo, write_qa); write_qa is "None", "True" or "False" *)

\* the generation of a SlitTraceSet created for a slot
NextGen(cd, mkey) ==
    IF mkey \in DOMAIN cd /\ "trace" \in DOMAIN cd[mkey] /\ cd[mkey]["trace"].kind = "art"
    THEN cd[mkey]["trace"].gen + 1
    ELSE 0

\* lines 761-763: store the slits and return them
StoreSlits(s, v, m, io) ==
    LET s1 == [SetAttr(s, "slits", v) EXCEPT !.slitmask = (v.k :> m) @@ @]
        u == _update_cache(s1, "trace", <<"trace">>, <<v>>)
    IN  IF u.err # "" THEN Raise(u.s, u.err, 0, io)
        ELSE Ok(u.s, <<v>>, 0, io, FALSE)

\* lines 718-763: the cache did not answer
\* a TraceSlits whose crash raises without saving the edges
TraceSlits_lost(s, o, mkey, io) ==
    LET gen == NextGen(s.calib_dict, mkey)
        loaded == from_master(s.ctl.reuse_masters, o.found, Art("trace", mkey, gen))
        io1 == Append(io, <<"load", "trace">>)
    IN  IF ~IsNone(loaded) THEN StoreSlits(s, loaded, o.m, io1)
        ELSE
        LET s1 == SetAttr(SetAttr(s, "slits", None), "edges", EdgesObj(mkey))
            io2 == Append(io1, <<"new", "edges">>)
            tosave == IF s.ctl.save_masters THEN <<<<"save", "trace">>>> ELSE <<>>
        IN  IF s.ctl.reuse_masters /\ o.edges
            THEN StoreSlits(SetAttr(s1, "edges", None), Art("trace", mkey, gen), {},
                            (io2 \o <<<<"load", "edges">>>>) \o tosave)
            ELSE
            LET io3 == io2 \o <<<<"new", "traceimage">>, <<"build", "traceimage">>,
                               <<"build", "edges">>>>
            IN  IF ~o.ok
                THEN Raise(s1, "crash_slits", 0, io3)
                ELSE StoreSlits(SetAttr(s1, "edges", None),
                                Art("trace", mkey, gen), {},
                                (io3 \o (IF s.ctl.save_masters
                                         THEN <<<<"save", "edges">>>> ELSE <<>>)) \o tosave)

TraceSlits(s, o, mkey, io) ==
    LET gen == NextGen(s.calib_dict, mkey)
        loaded == from_master(s.ctl.reuse_masters, o.found, Art("trace", mkey, gen))
        io1 == Append(io, <<"load", "trace">>)
    IN  IF ~IsNone(loaded) THEN StoreSlits(s, loaded, o.m, io1)
        ELSE
        LET s1 == SetAttr(SetAttr(s, "slits", None), "edges", EdgesObj(mkey))
            io2 == Append(io1, <<"new", "edges">>)
            tosave == IF s.ctl.save_masters THEN <<<<"save", "trace">>>> ELSE <<>>
        IN  IF s.ctl.reuse_masters /\ o.edges
            THEN StoreSlits(SetAttr(s1, "edges", None), Art("trace", mkey, gen), {},
                            (io2 \o <<<<"load", "edges">>>>) \o tosave)
            ELSE
            LET io3 == io2 \o <<<<"new", "traceimage">>, <<"build", "traceimage">>,
                               <<"build", "edges">>>>
            IN  IF ~o.ok
                THEN Raise(s1, "crash_slits", 0, Append(io3, <<"save", "edges">>))
                ELSE StoreSlits(SetAttr(s1, "edges", None),
                                Art("trace", mkey, gen), {},
                                (io3 \o (IF s.ctl.save_masters
                                         THEN <<<<"save", "edges">>>> ELSE <<>>)) \o tosave)

\* a get_slits that goes on without the bad-pixel mask
get_slits_no_bpm_check(s, o, redo, write_qa) ==
    LET wqa == IF write_qa = "None" THEN s.ctl.write_qa ELSE write_qa = "True"
    IN  IF wqa /\ ~s.ctl.qa_path THEN Raise(s, "qa_path", 0, <<>>)
        ELSE IF ~_chk_set(s, <<"det", "calib_ID", "par">>) THEN Raise(s, "chk_set", 0, <<>>)
        ELSE
        LET trace_rows == find_frames("trace", s.ctx.calib_ID)
            mkey == master_key(KeyRow(s, trace_rows), s.ctx.det)
            s1 == [s EXCEPT !.master_key_dict = ("trace" :> mkey) @@ @]
            c == _cached(s1, "trace", mkey)
            io == <<<<"find_frames", "trace">>>>
        IN  IF c.r /\ ~redo
            THEN LET v == c.s.calib_dict[mkey]["trace"]
                 IN  Ok(SetAttr(c.s, "slits", v), <<v>>, 0, io, TRUE)
            ELSE TraceSlits(c.s, o, mkey, io)

\* a get_slits that answers from the cache whatever redo is
get_slits_cache_first(s, o, redo, write_qa) ==
    LET wqa == IF write_qa = "None" THEN s.ctl.write_qa ELSE write_qa = "True"
    IN  IF wqa /\ ~s.ctl.qa_path THEN Raise(s, "qa_path", 0, <<>>)
        ELSE IF _chk_objs(s, <<"msbpm">>) # "True"
        THEN Ok(SetAttr(s, "slits", None), <<None>>, 2, <<>>, FALSE)
        ELSE IF ~_chk_set(s, <<"det", "calib_ID", "par">>) THEN Raise(s, "chk_set", 0, <<>>)
        ELSE
        LET trace_rows == find_frames("trace", s.ctx.calib_ID)
            mkey == master_key(KeyRow(s, trace_rows), s.ctx.det)
            s1 == [s EXCEPT !.master_key_dict = ("trace" :> mkey) @@ @]
            c == _cached(s1, "trace", mkey)
            io == <<<<"find_frames", "trace">>>>
        IN  IF c.r
            THEN LET v == c.s.calib_dict[mkey]["trace"]
                 IN  Ok(SetAttr(c.s, "slits", v), <<v>>, 0, io, TRUE)
            ELSE TraceSlits(c.s, o, mkey, io)

get_slits(s, o, redo, write_qa) ==
    LET wqa == IF write_qa = "None" THEN s.ctl.write_qa ELSE write_qa = "True"
    IN  IF wqa /\ ~s.ctl.qa_path THEN Raise(s, "qa_path", 0, <<>>)
        ELSE IF _chk_objs(s, <<"msbpm">>) # "True"
        THEN Ok(SetAttr(s, "slits", None), <<None>>, 2, <<>>, FALSE)
        ELSE IF ~_chk_set(s, <<"det", "calib_ID", "par">>) THEN Raise(s, "chk_set", 0, <<>>)
        ELSE
        LET trace_rows == find_frames("trace", s.ctx.calib_ID)
            mkey == master_key(KeyRow(s, trace_rows), s.ctx.det)
            s1 == [s EXCEPT !.master_key_dict = ("trace" :> mkey) @@ @]
            c == _cached(s1, "trace", mkey)
            io == <<<<"find_frames", "trace">>>>
        IN  IF c.r /\ ~redo
            THEN LET v == c.s.calib_dict[mkey]["trace"]
                 IN  Ok(SetAttr(c.s, "slits", v), <<v>>, 0, io, TRUE)
            ELSE TraceSlits(c.s, o, mkey, io)

-----------------------------------------------------------------------------
(* get_wv_calib *)

\* _cached(t1, key) and _cached(t2, key), the second evaluated only after a hit
BothCached(s, t1, t2, mkey) ==
    LET c1 == _cached(s, t1, mkey)
    IN  IF c1.r THEN _cached(c1.s, t2, mkey) ELSE c1

\* lines 852-885: load or run the wavelength calibration, mask, store
BuildWvCalib(s, o, mkey) ==
    LET arc_rows == find_frames("arc", s.ctx.calib_ID)
        io0 == <<<<"find_frames", "arc">>>>
    IN  IF Len(arc_rows) = 0 THEN Raise(s, "IndexError", 0, io0)
        ELSE
        LET io1 == io0 \o <<<<"new", "wavecalib">>, <<"load", "wavecalib">>>>
            loaded == BuilderLoad(s.ctl.reuse_masters, o.found,
                                  Art("wavecalib", mkey, 0))
            s1 == SetAttr(s, "wv_calib", loaded)
            built == ~IsNone(loaded) \/ o.ok
            wv == IF ~IsNone(loaded) THEN loaded ELSE Art("wavecalib", mkey, 0)
            io2 == IF ~IsNone(loaded) THEN io1
                   ELSE IF s.ctl.save_masters
                   THEN io1 \o <<<<"build", "wavecalib">>, <<"save", "wavecalib">>>>
                   ELSE Append(io1, <<"build", "wavecalib">>)
            s2 == SetAttr(s1, "wv_calib", wv)
            msk == MaskArr("wvmask", mkey, o.m)
        IN  IF ~built THEN Raise(s1, "build", 0, Append(io1, <<"build", "wavecalib">>))
            ELSE IF s2.attr.slits.kind # "art" THEN Raise(s2, "AttributeError", 0, io2)
            ELSE
            LET s3 == SetAttr(s2, "wv_maskslits", msk)
                om == OrMask(s3, msk)
                u == _update_cache(om.s, "arc", <<"wavecalib", "wvmask">>, <<wv, msk>>)
            IN  IF om.err # "" THEN Raise(om.s, om.err, 0, io2)
                ELSE IF u.err # "" THEN Raise(u.s, u.err, 0, io2)
                ELSE Ok(u.s, <<wv>>, 0, io2, FALSE)

\* a get_wv_calib whose cache branch leaves the mask of the slits alone
get_wv_calib_hit_no_or(s, o) ==
    LET chk == _chk_objs(s, <<"msarc", "msbpm", "slits">>)
    IN  IF chk = "AttributeError" THEN Raise(s, "AttributeError", 0, <<>>)
        ELSE IF chk = "False" THEN Raise(s, "objs", 2, <<>>)
        ELSE IF ~_chk_set(s, <<"det", "calib_ID", "par">>) THEN Raise(s, "chk_set", 0, <<>>)
        ELSE IF "arc" \notin DOMAIN s.master_key_dict THEN Raise(s, "arc_key", 0, <<>>)
        ELSE
        LET mkey == s.master_key_dict["arc"]
            c == BothCached(s, "wavecalib", "wvmask", mkey)
        IN  IF c.r
            THEN LET wv == c.s.calib_dict[mkey]["wavecalib"]
                     msk == c.s.calib_dict[mkey]["wvmask"]
                     s1 == SetAttr(SetAttr(c.s, "wv_calib", wv), "wv_maskslits", msk)
                 IN  Ok(s1, <<wv>>, 0, <<>>, TRUE)
            ELSE IF c.s.ctx.par.reference = "pixel"
            THEN LET s1 == SetAttr(c.s, "wv_calib", None)
                 IN  IF s1.attr.maskslits.kind = "Unset"
                     THEN Raise(s1, "AttributeError", 0, <<>>)
                     ELSE LET zero == MaskArr("wvmask", mkey, {})
                              om == OrMask(SetAttr(s1, "wv_maskslits", zero), zero)
                          IN  IF om.err # "" THEN Raise(om.s, om.err, 0, <<>>)
                              ELSE Ok(om.s, <<None>>, 0, <<>>, FALSE)
            ELSE BuildWvCalib(c.s, o, mkey)

get_wv_calib(s, o) ==
    LET chk == _chk_objs(s, <<"msarc", "msbpm", "slits">>)
    IN  IF chk = "AttributeError" THEN Raise(s, "AttributeError", 0, <<>>)
        ELSE IF chk = "False" THEN Raise(s, "objs", 2, <<>>)
        ELSE IF ~_chk_set(s, <<"det", "calib_ID", "par">>) THEN Raise(s, "chk_set", 0, <<>>)
        ELSE IF "arc" \notin DOMAIN s.master_key_dict THEN Raise(s, "arc_key", 0, <<>>)
        ELSE
        LET mkey == s.master_key_dict["arc"]
            c == BothCached(s, "wavecalib", "wvmask", mkey)
        IN  IF c.r
            THEN LET wv == c.s.calib_dict[mkey]["wavecalib"]
                     msk == c.s.calib_dict[mkey]["wvmask"]
                     s1 == SetAttr(SetAttr(c.s, "wv_calib", wv), "wv_maskslits", msk)
                     om == OrMask(s1, msk)
                 IN  IF om.err # "" THEN Raise(om.s, om.err, 0, <<>>)
                     ELSE Ok(om.s, <<wv>>, 0, <<>>, TRUE)
            ELSE IF c.s.ctx.par.reference = "pixel"
            THEN LET s1 == SetAttr(c.s, "wv_calib", None)
                 IN  IF s1.attr.maskslits.kind = "Unset"
                     THEN Raise(s1, "AttributeError", 0, <<>>)
                     ELSE LET zero == MaskArr("wvmask", mkey, {})
                              om == OrMask(SetAttr(s1, "wv_maskslits", zero), zero)
                          IN  IF om.err # "" THEN Raise(om.s, om.err, 0, <<>>)
                              ELSE Ok(om.s, <<None>>, 0, <<>>, FALSE)
            ELSE BuildWvCalib(c.s, o, mkey)

-----------------------------------------------------------------------------
(* get_tilts *)

\* synthetic tilts images, one per master key: tilts_dict['tilts'], of
\* nspec = Len rows
TiltsData(mkey) ==
    CASE mkey = "A_1_01" -> <<0, 1>>
      [] mkey = "A_2_01" -> <<1, 0, 1>>
      [] OTHER -> <<0, 1, 1>>

TiltsArt(mkey) == [Art("tilts_dict", mkey, 0) EXCEPT !.d = TiltsData(mkey)]

\* lines 922-945
BuildTilts(s, o, mkey) ==
    LET io1 == <<<<"new", "tilts">>, <<"load", "tilts">>>>
        loaded == BuilderLoad(s.ctl.reuse_masters, o.found, TiltsArt(mkey))
        s1 == SetAttr(s, "tilts_dict", loaded)
    IN  IF s.attr.slits.kind # "art" THEN Raise(s1, "AttributeError", 0, io1)
        ELSE IF IsNone(loaded) /\ ~o.ok
        THEN Raise(s1, "build", 0, Append(io1, <<"build", "tilts">>))
        ELSE
        LET td == IF IsNone(loaded) THEN TiltsArt(mkey) ELSE loaded
            wt == MaskArr("wtmask", mkey, IF IsNone(loaded) THEN o.m ELSE {})
            io2 == IF ~IsNone(loaded) THEN io1
                   ELSE IF s.ctl.save_masters
                   THEN io1 \o <<<<"build", "tilts">>, <<"save", "tilts">>>>
                   ELSE Append(io1, <<"build", "tilts">>)
            s2 == SetAttr(SetAttr(s1, "tilts_dict", td), "wt_maskslits", wt)
            u == _update_cache(s2, "tilt", <<"tilts_dict", "wtmask">>, <<td, wt>>)
            om == OrMask(u.s, wt)
        IN  IF u.err # "" THEN Raise(u.s, u.err, 0, io2)
            ELSE IF om.err # "" THEN Raise(om.s, om.err, 0, io2)
            ELSE Ok(om.s, <<td>>, 0, io2, FALSE)

\* a get_tilts that does not ask for wv_calib
get_tilts_no_wv(s, o) ==
    LET chk == _chk_objs(s, <<"mstilt", "msbpm", "slits">>)
    IN  IF chk = "AttributeError" THEN Raise(s, "AttributeError", 0, <<>>)
        ELSE IF chk = "False" THEN Raise(s, "objs", 2, <<>>)
        ELSE IF ~_chk_set(s, <<"det", "calib_ID", "par">>) THEN Raise(s, "chk_set", 0, <<>>)
        ELSE IF "tilt" \notin DOMAIN s.master_key_dict THEN Raise(s, "tilt_key", 0, <<>>)
        ELSE
        LET mkey == s.master_key_dict["tilt"]
            c == BothCached(s, "tilts_dict", "wtmask", mkey)
        IN  IF c.r
            THEN LET td == c.s.calib_dict[mkey]["tilts_dict"]
                     wt == c.s.calib_dict[mkey]["wtmask"]
                     s1 == SetAttr(SetAttr(c.s, "tilts_dict", td), "wt_maskslits", wt)
                     om == OrMask(s1, wt)
                 IN  IF om.err # "" THEN Raise(om.s, om.err, 0, <<>>)
                     ELSE Ok(om.s, <<td>>, 0, <<>>, TRUE)
            ELSE BuildTilts(c.s, o, mkey)

get_tilts(s, o) ==
    LET chk == _chk_objs(s, <<"mstilt", "msbpm", "slits", "wv_calib">>)
    IN  IF chk = "AttributeError" THEN Raise(s, "AttributeError", 0, <<>>)
        ELSE IF chk = "False" THEN Raise(s, "objs", 2, <<>>)
        ELSE IF ~_chk_set(s, <<"det", "calib_ID", "par">>) THEN Raise(s, "chk_set", 0, <<>>)
        ELSE IF "tilt" \notin DOMAIN s.master_key_dict THEN Raise(s, "tilt_key", 0, <<>>)
        ELSE
        LET mkey == s.master_key_dict["tilt"]
            c == BothCached(s, "tilts_dict", "wtmask", mkey)
        IN  IF c.r
            THEN LET td == c.s.calib_dict[mkey]["tilts_dict"]
                     wt == c.s.calib_dict[mkey]["wtmask"]
                     s1 == SetAttr(SetAttr(c.s, "tilts_dict", td), "wt_maskslits", wt)
                     om == OrMask(s1, wt)
                 IN  IF om.err # "" THEN Raise(om.s, om.err, 0, <<>>)
                     ELSE Ok(om.s, <<td>>, 0, <<>>, TRUE)
            ELSE BuildTilts(c.s, o, mkey)

-----------------------------------------------------------------------------
(* get_flats *)

\* the two assignments and the return of the short circuits
NoFlats(s, warns) ==
    Ok(SetAttr(SetAttr(s, "mspixelflat", None), "msillumflat", None),
       <<None, None>>, warns, <<>>, FALSE)

\* par['flatfield']['method'] is 'skip'
MethodIsSkip(par) == par.method = "skip" /\ par.method_same

\* the warnings of step 4
FlatWarns(s, pix, illum) ==
    (IF IsNone(pix) THEN 1 ELSE 0)
    + (IF IsNone(illum) \/ ~s.ctx.par.illumflatten THEN 1 ELSE 0)

\* lines 596-604: the user flat file that is opened, the literal path before
\* the path in the master directory; "none" is the msgs.error
flat_file(user) ==
    IF user \in {"literal", "both"} THEN "literal"
    ELSE IF user = "masterdir" THEN "masterdir"
    ELSE "none"

\* hdu[self.det].data of the user flat file at the place path
UserFlat(path) == Art("userflat", path, 0)

\* a step 3 that writes the slits again whether the builder ran or not
FlatRunIO_resaves(s, runs) ==
    (IF ~runs THEN <<>>
     ELSE IF ~s.ctl.save_masters THEN <<<<"build", "flat">>>>
     ELSE <<<<"build", "flat">>, <<"save", "flat">>>>)
    \o (IF s.ctl.save_masters /\ s.ctx.par.tweak_slits
        THEN <<<<"save", "trace">>>> ELSE <<>>)

\* lines 611-634: the external calls of step 3, the run of the builder, its
\* save and the slits written again
FlatRunIO(s, runs) ==
    IF ~runs THEN <<>>
    ELSE IF ~s.ctl.save_masters THEN <<<<"build", "flat">>>>
    ELSE IF ~s.ctx.par.tweak_slits THEN <<<<"build", "flat">>, <<"save", "flat">>>>
    ELSE <<<<"build", "flat">>, <<"save", "flat">>, <<"save", "trace">>>>

\* lines 576-668
BuildFlats(s, o, mkey, nfiles, io) ==
    LET io1 == io \o <<<<"new", "flat">>, <<"load", "flat">>>>
        lp == BuilderLoad(s.ctl.reuse_masters, o.found, Art("pixelflat", mkey, 0))
        li == BuilderLoad(s.ctl.reuse_masters, o.found, Art("illumflat", mkey, 0))
        s1 == SetAttr(SetAttr(s, "mspixelflat", lp), "msillumflat", li)
        user == s.ctx.par.flatframe # "pixelflat"
    IN  IF user /\ flat_file(o.user) = "none" THEN Raise(s1, "userflat", 0, io1)
        ELSE
        LET pix2 == IF user THEN UserFlat(flat_file(o.user)) ELSE lp
            ill2 == IF user THEN None ELSE li
            io2 == IF user THEN Append(io1, <<"open", flat_file(o.user)>>) ELSE io1
            s2 == SetAttr(SetAttr(s1, "mspixelflat", pix2), "msillumflat", ill2)
            runs == IsNone(pix2) /\ nfiles # 0
        IN  IF runs /\ ~o.ok THEN Raise(s2, "build", 0, Append(io2, <<"build", "flat">>))
            ELSE IF runs /\ s.ctl.save_masters /\ s.ctx.par.tweak_slits
                    /\ s.attr.slits.kind # "art"
            THEN Raise(SetAttr(SetAttr(s2, "mspixelflat", Art("pixelflat", mkey, 0)),
                               "msillumflat", Art("illumflat", mkey, 0)),
                       "AttributeError", 0,
                       io2 \o <<<<"build", "flat">>, <<"save", "flat">>>>)
            ELSE
            LET pix3 == IF runs THEN Art("pixelflat", mkey, 0) ELSE pix2
                ill3 == IF runs THEN Art("illumflat", mkey, 0) ELSE ill2
                io3 == io2 \o FlatRunIO(s, runs)
                s3 == SetAttr(SetAttr(s2, "mspixelflat", pix3), "msillumflat", ill3)
                u == _update_cache(s3, "flat", <<"pixelflat", "illumflat">>, <<pix3, ill3>>)
            IN  IF u.err # "" THEN Raise(u.s, u.err, FlatWarns(s, pix3, ill3), io3)
                ELSE Ok(u.s, <<pix3, ill3>>, FlatWarns(s, pix3, ill3), io3, FALSE)

get_flats(s, o) ==
    LET chk == _chk_objs(s, <<"msarc", "msbpm", "slits", "wv_calib">>)
    IN  IF chk = "AttributeError" THEN Raise(s, "AttributeError", 0, <<>>)
        ELSE IF chk = "False" THEN Raise(s, "flats_objs", 2, <<>>)
        ELSE IF MethodIsSkip(s.ctx.par) THEN NoFlats(s, 1)
        ELSE IF _chk_objs(s, <<"slits", "tilts_dict">>) # "True" THEN NoFlats(s, 3)
        ELSE IF ~_chk_set(s, <<"det", "calib_ID", "par">>) THEN Raise(s, "chk_set", 0, <<>>)
        ELSE
        LET pixflat_rows == find_frames("pixelflat", s.ctx.calib_ID)
            mkey == master_key(KeyRow(s, pixflat_rows), s.ctx.det)
            s1 == [s EXCEPT !.master_key_dict = ("flat" :> mkey) @@ @]
            c == BothCached(s1, "pixelflat", "illumflat", mkey)
            io == <<<<"find_frames", "pixelflat">>>>
        IN  IF c.r
            THEN LET pix == c.s.calib_dict[mkey]["pixelflat"]
                     ill == c.s.calib_dict[mkey]["illumflat"]
                 IN  Ok(SetAttr(SetAttr(c.s, "mspixelflat", pix), "msillumflat", ill),
                        <<pix, ill>>, 0, io, TRUE)
            ELSE BuildFlats(c.s, o, mkey, Len(pixflat_rows), io)

-----------------------------------------------------------------------------
(* get_wave *)

\* tilts * (tilts.shape[0] - 1.0)
PixelRamp(tilts) == [i \in 1..Len(tilts) |-> tilts[i] * (Len(tilts) - 1)]

RampArt(td) == [Val("ramp", "wave", td.k, 0, {}) EXCEPT !.d = PixelRamp(td.d)]

\* lines 796-815
BuildWave(s, o, mkey) ==
    IF s.attr.tilts_dict.kind # "art" THEN Raise(s, "KeyError", 0, <<>>)
    ELSE IF s.attr.slits.kind # "art" THEN Raise(s, "AttributeError", 0, <<>>)
    ELSE
    LET io1 == <<<<"new", "wave">>, <<"load", "wave">>>>
        loaded == BuilderLoad(s.ctl.reuse_masters, o.found, Art("wave", mkey, 0))
        s1 == SetAttr(s, "mswave", loaded)
    IN  IF IsNone(loaded) /\ ~o.ok
        THEN Raise(s1, "build", 0, Append(io1, <<"build", "wave">>))
        ELSE
        LET w == IF IsNone(loaded) THEN Art("wave", mkey, 0) ELSE loaded
            io2 == IF ~IsNone(loaded) THEN io1
                   ELSE IF s.ctl.save_masters
                   THEN io1 \o <<<<"build", "wave">>, <<"save", "wave">>>>
                   ELSE Append(io1, <<"build", "wave">>)
            u == _update_cache(SetAttr(s1, "mswave", w), "arc", <<"wave">>, <<w>>)
        IN  IF u.err # "" THEN Raise(u.s, u.err, 0, io2)
            ELSE Ok(u.s, <<w>>, 0, io2, FALSE)

get_wave(s, o) ==
    LET chk == _chk_objs(s, <<"tilts_dict", "slits", "wv_calib">>)
    IN  IF chk = "AttributeError" THEN Raise(s, "AttributeError", 0, <<>>)
        ELSE IF chk = "False" THEN Ok(SetAttr(s, "mswave", None), <<None>>, 2, <<>>, FALSE)
        ELSE IF ~_chk_set(s, <<"det", "par">>) THEN Raise(s, "chk_set", 0, <<>>)
        ELSE IF "arc" \notin DOMAIN s.master_key_dict THEN Raise(s, "KeyError", 0, <<>>)
        ELSE
        LET mkey == s.master_key_dict["arc"]
            c == _cached(s, "wave", mkey)
        IN  IF c.r
            THEN LET w == c.s.calib_dict[mkey]["wave"]
                 IN  Ok(SetAttr(c.s, "mswave", w), <<w>>, 0, <<>>, TRUE)
            ELSE IF c.s.ctx.par.reference = "pixel"
            THEN IF c.s.attr.tilts_dict.kind # "art" THEN Raise(c.s, "KeyError", 1, <<>>)
                 ELSE LET w == RampArt(c.s.attr.tilts_dict)
                      IN  Ok([SetAttr(c.s, "mswave", w)
                                 EXCEPT !.calib_dict[mkey] = ("wave" :> w) @@ @],
                             <<w>>, 1, <<>>, FALSE)
            ELSE BuildWave(c.s, o, mkey)

-----------------------------------------------------------------------------
(* set_config(frame, det, par=None, calib_id=None, rm_cache=False)         *)
(* islist: the frame argument has a length; calib_id NoInt: not given;     *)
(* newpar: the par argument, or the current par when it is None            *)

\* a set_config that empties the cache whatever rm_cache is
set_config_forget(s, islist, frame, det, newpar, calib_id, rm_cache) ==
    IF islist THEN Raise(s, "frame_arg", 0, <<>>)
    ELSE
    LET s1 == _reset_internals(s)
        s2 == [s1 EXCEPT !.calib_dict = NoEntries, !.slitmask = NoEntries]
        cid == IF calib_id = NoInt THEN CalibCol[frame][1] ELSE calib_id
        warns == (IF rm_cache THEN 1 ELSE 0)
                 + (IF calib_id = NoInt /\ Len(CalibCol[frame]) > 1 THEN 1 ELSE 0)
        s3 == [s2 EXCEPT !.ctx = [frame |-> frame, det |-> det, calib_ID |-> cid,
                                  par |-> newpar],
                         !.master_key_dict = ("frame" :> master_key(frame, det)) @@ @]
    IN  Ok(s3, <<None>>, warns, <<>>, FALSE)

\* a set_config that takes the last group listed for the frame and warns
\* about a frame of several groups also when the group is given
set_config_last_group(s, islist, frame, det, newpar, calib_id, rm_cache) ==
    IF islist THEN Raise(s, "frame_arg", 0, <<>>)
    ELSE
    LET s1 == _reset_internals(s)
        s2 == IF rm_cache THEN [s1 EXCEPT !.calib_dict = NoEntries, !.slitmask = NoEntries]
              ELSE s1
        cid == IF calib_id = NoInt THEN CalibCol[frame][Len(CalibCol[frame])] ELSE calib_id
        warns == (IF rm_cache THEN 1 ELSE 0)
                 + (IF Len(CalibCol[frame]) > 1 THEN 1 ELSE 0)
        s3 == [s2 EXCEPT !.ctx = [frame |-> frame, det |-> det, calib_ID |-> cid,
                                  par |-> newpar],
                         !.master_key_dict = ("frame" :> master_key(frame, det)) @@ @]
    IN  Ok(s3, <<None>>, warns, <<>>, FALSE)

\* a set_config that resets, and empties the cache, before it looks at the
\* frame argument
set_config_reset_first(s, islist, frame, det, newpar, calib_id, rm_cache) ==
    LET s1 == _reset_internals(s)
        s2 == IF rm_cache THEN [s1 EXCEPT !.calib_dict = NoEntries, !.slitmask = NoEntries]
              ELSE s1
    IN  IF islist THEN Raise(s2, "frame_arg", 0, <<>>)
        ELSE
        LET cid == IF calib_id = NoInt THEN CalibCol[frame][1] ELSE calib_id
            warns == (IF rm_cache THEN 1 ELSE 0)
                     + (IF calib_id = NoInt /\ Len(CalibCol[frame]) > 1 THEN 1 ELSE 0)
            s3 == [s2 EXCEPT !.ctx = [frame |-> frame, det |-> det, calib_ID |-> cid,
                                      par |-> newpar],
                             !.master_key_dict = ("frame" :> master_key(frame, det)) @@ @]
        IN  Ok(s3, <<None>>, warns, <<>>, FALSE)

set_config(s, islist, frame, det, newpar, calib_id, rm_cache) ==
    IF islist THEN Raise(s, "frame_arg", 0, <<>>)
    ELSE
    LET s1 == _reset_internals(s)
        s2 == IF rm_cache THEN [s1 EXCEPT !.calib_dict = NoEntries, !.slitmask = NoEntries]
              ELSE s1
        cid == IF calib_id = NoInt THEN CalibCol[frame][1] ELSE calib_id
        warns == (IF rm_cache THEN 1 ELSE 0)
                 + (IF calib_id = NoInt /\ Len(CalibCol[frame]) > 1 THEN 1 ELSE 0)
        s3 == [s2 EXCEPT !.ctx = [frame |-> frame, det |-> det, calib_ID |-> cid,
                                  par |-> newpar],
                         !.master_key_dict = ("frame" :> master_key(frame, det)) @@ @]
    IN  Ok(s3, <<None>>, warns, <<>>, FALSE)

-----------------------------------------------------------------------------
(* run_the_steps: getattr(self, 'get_' + step)() for each step in order *)

StepNames == {"bias", "bpm", "arc", "tiltimg", "slits", "wv_calib", "tilts", "flats", "wave"}

\* the getter of a step, called without arguments
Getter(step, s, o) ==
    CASE step = "bias" -> get_bias(s, o)
      [] step = "bpm" -> get_bpm(s, o)
      [] step = "arc" -> get_arc(s, o)
      [] step = "tiltimg" -> get_tiltimg(s, o)
      [] step = "slits" -> get_slits(s, o, FALSE, "None")
      [] step = "wv_calib" -> get_wv_calib(s, o)
      [] step = "tilts" -> get_tilts(s, o)
      [] step = "flats" -> get_flats(s, o)
      [] step = "wave" -> get_wave(s, o)

\* the outcomes the external calls of a step can have
Outcomes(step) ==
    CASE step \in {"bias", "arc", "tiltimg", "wave"} -> Plain
      [] step = "bpm" -> BpmOutcomes
      [] step = "slits" -> SlitOutcomes
      [] step = "wv_calib" -> WvOutcomes
      [] step = "tilts" -> TiltOutcomes
      [] step = "flats" -> FlatOutcomes

\* the builds among the external calls, in order
RECURSIVE Builds(_)
Builds(io) ==
    IF io = <<>> THEN <<>>
    ELSE IF Head(io)[1] = "build" THEN <<Head(io)[2]>> \o Builds(Tail(io))
    ELSE Builds(Tail(io))

Idle == [pc |-> 0, status |-> "idle"]

-----------------------------------------------------------------------------
(* Actions: one call of a public method each *)

Result(op, r) ==
    [op |-> op, err |-> r.err, value |-> r.value, warns |-> r.warns, io |-> r.io,
     hit |-> r.hit]

Do(op, r) == Commit(r.s) /\ ret' = Result(op, r)

\* the (frame, calib_id, par, rm_cache) arguments set_config is called with:
\* frame 0 with each parameter set, the frame of two groups, the frame of the
\* group without bias and flat frames, a group given explicitly, a group
\* without any frame, and two calls that empty the cache
ConfigArgs ==
    {<<0, NoInt, p, FALSE>> : p \in {DefaultPar, PixelPar, SkipPar, SkipParsedPar,
                                     UserFlatPar, UseBiasPar}}
    \cup {<<2, NoInt, DefaultPar, FALSE>>, <<1, NoInt, DefaultPar, FALSE>>,
          <<0, 2, DefaultPar, FALSE>>, <<2, 3, DefaultPar, FALSE>>,
          <<0, NoInt, DefaultPar, TRUE>>, <<1, NoInt, DefaultPar, TRUE>>}

Call_set_config ==
    /\ run.pc = 0
    /\ used < MaxCalls
    /\ \E fc \in ConfigArgs, det \in Dets :
          Do("set_config", set_config(Self, FALSE, fc[1], det, fc[3], fc[2], fc[4]))
    /\ run' = Idle
    /\ used' = used + 1

\* a frame argument that has a length
Call_set_config_list ==
    /\ run.pc = 0
    /\ used < MaxCalls
    /\ \E rm_cache \in BOOLEAN :
          Do("set_config", set_config(Self, TRUE, 0, 1, DefaultPar, NoInt, rm_cache))
    /\ run' = Idle
    /\ used' = used + 1

Call_getter ==
    /\ run.pc = 0
    /\ used < MaxCalls
    /\ \E step \in StepNames \ {"slits"} : \E o \in Outcomes(step) :
          Do(step, Getter(step, Self, o))
    /\ run' = Idle
    /\ used' = used + 1

Call_get_slits ==
    /\ run.pc = 0
    /\ used < MaxCalls
    /\ \E o \in SlitOutcomes, redo \in BOOLEAN, write_qa \in {"None", "True"} :
          Do("slits", get_slits(Self, o, redo, write_qa))
    /\ run' = Idle
    /\ used' = used + 1

Call_run_the_steps ==
    /\ run.pc = 0
    /\ used < MaxCalls
    /\ run' = IF ctl.steps = <<>>
              THEN [Idle EXCEPT !.status = "done"]
              ELSE [Idle EXCEPT !.pc = 1, !.status = "running"]
    /\ ret' = [op |-> "run_the_steps", err |-> "", value |-> <<>>, warns |-> 0,
               io |-> <<>>, hit |-> FALSE]
    /\ used' = used + 1
    /\ UNCHANGED <<calib_dict, master_key_dict, ctx, ctl, attr, slitmask>>

\* a run_the_steps that goes on to the next step after a getter has raised
RunStep_on ==
    /\ run.pc > 0
    /\ LET step == ctl.steps[run.pc]
       IN  \E o \in Outcomes(step) :
             LET r == Getter(step, Self, o)
             IN  /\ Do(step, r)
                 /\ run' = [pc |-> IF run.pc = Len(ctl.steps) THEN 0 ELSE run.pc + 1,
                            status |-> IF run.pc = Len(ctl.steps) THEN "done"
                                       ELSE "running"]
    /\ UNCHANGED used

RunStep ==
    /\ run.pc > 0
    /\ LET step == ctl.steps[run.pc]
       IN  \E o \in Outcomes(step) :
             LET r == Getter(step, Self, o)
             IN  /\ Do(step, r)
                 /\ run' = [pc |-> IF r.err # "" \/ run.pc = Len(ctl.steps)
                                   THEN 0 ELSE run.pc + 1,
                            status |-> IF r.err # "" THEN "raised"
                                       ELSE IF run.pc = Len(ctl.steps) THEN "done"
                                       ELSE "running"]
    /\ UNCHANGED used

\* the objects a behaviour starts from: the multi-slit class with its default
\* steps, or the base class, whose list of steps is empty, told not to save
Constructions ==
    { MultiSlitCalibrations(caldir, FALSE, reuse, NoSteps) :
        caldir \in BOOLEAN, reuse \in BOOLEAN }
    \cup { Construct(TRUE, FALSE, FALSE, reuse) : reuse \in BOOLEAN }

Init ==
    /\ \E s \in Constructions :
          /\ calib_dict = s.calib_dict
          /\ master_key_dict = s.master_key_dict
          /\ ctx = s.ctx
          /\ ctl = s.ctl
          /\ attr = s.attr
          /\ slitmask = s.slitmask
    /\ ret = [op |-> "__init__", err |-> "", value |-> <<>>, warns |-> 0, io |-> <<>>,
              hit |-> FALSE]
    /\ run = Idle
    /\ used = 0

Next ==
    \/ Call_set_config
    \/ Call_set_config_list
    \/ Call_getter
    \/ Call_get_slits
    \/ Call_run_the_steps
    \/ RunStep

Spec == Init /\ [][Next]_vars

\* the lists of steps given to the constructor: none, the empty list, one
\* product, a permutation of two, three products with the tilt image first
StepLists == {NoSteps, <<>>, <<"arc">>, <<"bpm", "bias">>, <<"tiltimg", "bpm", "slits">>}

\* objects constructed with a list of steps
InitSteps ==
    /\ \E l \in StepLists :
          LET s == MultiSlitCalibrations(TRUE, FALSE, FALSE, l)
          IN  /\ calib_dict = s.calib_dict
              /\ master_key_dict = s.master_key_dict
              /\ ctx = s.ctx
              /\ ctl = s.ctl
              /\ attr = s.attr
              /\ slitmask = s.slitmask
    /\ ret = [op |-> "__init__", err |-> "", value |-> <<>>, warns |-> 0, io |-> <<>>,
              hit |-> FALSE]
    /\ run = Idle
    /\ used = 0

SpecSteps == InitSteps /\ [][Next]_vars

-----------------------------------------------------------------------------
(* Properties.  A property about "a call of get_x" is stated on the results *)
(* Calls(x) that such a call can have in the current state, for every      *)
(* reachable state; ret holds the result of the call that led to the state *)

\* the results a call of the getter of a step can have in the current state
Calls(step) == {Getter(step, Self, o) : o \in Outcomes(step)}

\* the builder calls (instantiate, load, build, save) among external calls
RECURSIVE BuilderIO(_)
BuilderIO(io) ==
    IF io = <<>> THEN <<>>
    ELSE IF Head(io)[1] \in {"new", "load", "build", "save", "open"}
    THEN <<Head(io)>> \o BuilderIO(Tail(io))
    ELSE BuilderIO(Tail(io))

\* set_config has been called and nothing else has changed the context
Configured == ctx.det # NoInt /\ ctx.calib_ID # NoInt

\* C1: a getter called twice in a row, with no set_config in between, returns
\* the same artifact both times, and the second call makes no builder load,
\* build or save: when the last call was a getter that returned, whatever a
\* call of the same getter now does, it returns that value again
C1_TwiceSame ==
    (ret.op \in StepNames /\ ret.err = "") =>
        \A r \in Calls(ret.op) :
            /\ r.err = ""
            /\ r.value = ret.value
            /\ BuilderIO(r.io) = <<>>

\* get_bias called twice after set_config: the second call answers from the
\* cache with the artifact the first built or loaded
C1_Witness ==
    /\ used = 3
    /\ run.status = "idle"
    /\ ret.op = "bias"
    /\ ret.err = ""
    /\ ret.hit
    /\ ret.value = <<Art("bias", "A_1_01", 0)>>
    /\ BuilderIO(ret.io) = <<>>

\* the master types the getters keep in calib_dict
MasterTypes == {"bias", "bpm", "arc", "tiltimg", "trace", "wavecalib", "wvmask",
                "tilts_dict", "wtmask", "pixelflat", "illumflat", "wave"}

\* C2: _cached(master_type, master_key) returns True only when an artifact has
\* been stored under that key and type, and calls repeated with no store in
\* between all return False
C2_CachedMeansStored ==
    \A mkey \in Keys, ptype \in MasterTypes :
        LET c1 == _cached(Self, ptype, mkey)
            c2 == _cached(c1.s, ptype, mkey)
            c3 == _cached(c2.s, ptype, mkey)
        IN  /\ c1.r => calib_dict[mkey][ptype].kind # "Empty"
            /\ ~c1.r => (~c2.r /\ ~c3.r)

\* C3: after a getter has raised, a value that a later getter call returns as
\* a cache hit is an artifact that a load or a build produced, never the empty
\* placeholder
C3_HitIsArtifact ==
    (ret.op \in StepNames /\ ret.err # "") =>
        \A step \in StepNames : \A r \in Calls(step) :
            r.hit => \A i \in 1..Len(r.value) : r.value[i].kind # "Empty"

\* C4: when the getter of a step of run_the_steps raises, the call ends there
\* with the error: no getter of a later step is called in it, and what happens
\* next is a new call of a public method
C4_AbortOnError ==
    [][/\ (run.pc > 0 /\ ret'.err # "") => (run'.pc = 0 /\ run'.status = "raised")
       /\ run.status = "raised" => (run.pc = 0 /\ used' = used + 1)]_vars

\* a step that is not the last one raised and run_the_steps ended
C4_Witness ==
    /\ run.status = "raised"
    /\ run.pc = 0
    /\ ret.err # ""
    /\ ret.op = "slits"
    /\ ctl.steps = default_steps

\* C5: what each step of the default recipe builds when its getter succeeds on
\* a fresh cache without reuse of masters (the bad pixel mask comes from the
\* spectrograph, the trace image is built for the edge tracing)
C5_Expected ==
    << <<"bias">>, <<"bpm">>, <<"arc">>, <<"tiltimg">>, <<"traceimage", "edges">>,
       <<"wavecalib">>, <<"tilts">>, <<"flat">>, <<"wave">> >>

\* run_the_steps is the first call after the first set_config, for a
\* calibration group with frames of every type, with the default choices of
\* wavelength reference and flat field, without reuse of masters
C5_FreshRun ==
    /\ used = 2
    /\ run.pc > 0
    /\ ctl.steps = default_steps
    /\ ~ctl.reuse_masters
    /\ ctx.calib_ID = 1
    /\ ctx.par.reference = "arc"
    /\ ctx.par.flatframe = "pixelflat"
    /\ ~MethodIsSkip(ctx.par)

\* C5: from a fresh object with an empty cache, frames of every type, reuse of
\* masters disabled, run_the_steps with the default steps raises only when a
\* builder fails; each step builds its product exactly once, in the order
\* bias, (bpm,) arc, tilt image, slits, wavelength calibration, tilts, flats,
\* wavelength image, and the call ends after the last step
C5_DefaultRun ==
    [][C5_FreshRun =>
          /\ ret'.op = default_steps[run.pc]
          /\ ret'.err \in {"", "build", "crash_slits"}
          /\ ret'.err = "" =>
                /\ Builds(ret'.io) = C5_Expected[run.pc]
                /\ ~ret'.hit
                /\ run' = IF run.pc = Len(default_steps)
                          THEN [pc |-> 0, status |-> "done"]
                          ELSE [pc |-> run.pc + 1, status |-> "running"]]_vars

\* the run reached its end: the last step built the wavelength image
C5_Witness ==
    /\ used = 2
    /\ run.status = "done"
    /\ ~ctl.reuse_masters
    /\ ctx.calib_ID = 1
    /\ ctx.par = DefaultPar
    /\ ret.op = "wave"
    /\ ret.err = ""
    /\ Builds(ret.io) = <<"wave">>
    /\ attr.mswave = Art("wave", "A_3_01", 0)

\* one of the attributes is None
AnyNone(names) == \E a \in names : IsNone(attr[a])

\* the errors of the checks get_wv_calib makes before it looks at the cache
WvChecks == {"objs", "chk_set", "arc_key"}

\* C6 (as amended): on a configured object get_wv_calib raises 'dont have all
\* the objects' as long as msarc, msbpm or slits is None, before get_arc and
\* after get_arc alone; it never raises 'Arc master key not set'; with the
\* three in place it goes past its checks
C6_NeedsArcBpmSlits ==
    Configured =>
        \A r \in Calls("wv_calib") :
            /\ AnyNone({"msarc", "msbpm", "slits"}) => (r.err = "objs" /\ r.s = Self)
            /\ r.err # "arc_key"
            /\ ~AnyNone({"msarc", "msbpm", "slits"}) => r.err \notin WvChecks

\* get_arc has succeeded, get_bpm has not been called, and get_wv_calib raised
C6_Witness ==
    /\ ret.op = "wv_calib"
    /\ ret.err = "objs"
    /\ attr.msarc = Art("arc", "A_3_01", 0)
    /\ "arc" \in DOMAIN master_key_dict
    /\ IsNone(attr.msbpm)

\* C6: on a freshly configured object get_wv_calib called before get_arc
\* raises the error that names the missing 'arc' master key, and once get_arc
\* has succeeded it goes past its checks
C6_Original ==
    Configured =>
        \A r \in Calls("wv_calib") :
            /\ "arc" \notin DOMAIN master_key_dict => r.err = "arc_key"
            /\ attr.msarc.kind = "art" => r.err \notin WvChecks

\* the external calls of a result include the instantiation of a builder
NewsBuilder(io) == \E i \in 1..Len(io) : io[i][1] = "new"

C8_PixelReference ==
    (Configured /\ ctx.par.reference = "pixel"
        /\ ~AnyNone({"msarc", "msbpm", "slits"}) /\ attr.slits.kind = "art") =>
        \A r \in Calls("wv_calib") :
            ~r.hit =>
                /\ r.err = ""
                /\ r.value = <<None>>
                /\ BuilderIO(r.io) = <<>>
                /\ r.s.slitmask = slitmask
                /\ attr.tilts_dict.kind = "art" =>
                      \A o \in Outcomes("wave") :
                          LET w == get_wave(r.s, o)
                          IN  /\ w.err = ""
                              /\ w.value = <<RampArt(attr.tilts_dict)>>
                              /\ BuilderIO(w.io) = <<>>

\* C9: with flat field method 'skip', get_flats returns (None, None) with
\* exactly one warning whatever is there of arc, bpm, slits, wv_calib and
\* tilts; it never raises and leaves the cache as it is
C9_SkipFlats ==
    (Configured /\ ctx.par.method = "skip") =>
        \A r \in Calls("flats") :
            /\ r.err = ""
            /\ r.value = <<None, None>>
            /\ r.warns = 1
            /\ r.s.calib_dict = calib_dict

\* C10: with a method other than 'skip' and the slits or the tilts missing,
\* get_flats only warns and returns (None, None): it does not raise, calls no
\* flat builder and stores nothing
C10_MissingSlitsOrTilts ==
    (Configured /\ ctx.par.method # "skip" /\ AnyNone({"slits", "tilts_dict"})) =>
        \A r \in Calls("flats") :
            /\ r.err = ""
            /\ r.value = <<None, None>>
            /\ r.warns > 0
            /\ BuilderIO(r.io) = <<>>
            /\ r.s.calib_dict = calib_dict

\* the mask of the SlitTraceSet that self.slits is, in an object s
MaskOf(s) == s.slitmask[s.attr.slits.k]

\* the mask the getter of a step has just contributed: wv_maskslits, wt_maskslits
Contribution(step, s) ==
    IF step = "wv_calib" THEN s.attr.wv_maskslits.m ELSE s.attr.wt_maskslits.m

\* C11: the mask of the slits only grows: a call of get_wv_calib or get_tilts
\* (hit or miss, returning or raising) keeps self.slits the same object and
\* every bit of its mask, a call that returns leaves the mask OR its
\* contribution, and after get_wv_calib and then get_tilts the mask is the OR
\* of the mask before and the two contributions
C11_MaskOnlyGrows ==
    attr.slits.kind = "art" =>
        /\ \A step \in {"wv_calib", "tilts"} : \A r \in Calls(step) :
              /\ r.s.attr.slits = attr.slits
              /\ MaskOf(Self) \subseteq MaskOf(r.s)
              /\ r.err = "" => MaskOf(r.s) = MaskOf(Self) \cup Contribution(step, r.s)
        /\ \A r1 \in Calls("wv_calib") :
              r1.err = "" =>
                  \A r2 \in {get_tilts(r1.s, o) : o \in TiltOutcomes} :
                      r2.err = "" =>
                          MaskOf(r2.s) = (MaskOf(Self) \cup r1.s.attr.wv_maskslits.m)
                                             \cup r2.s.attr.wt_maskslits.m

\* get_tilts has returned after get_wv_calib: each flagged one slit, and the
\* mask of the slits holds both
C11_Witness ==
    /\ ret.op = "tilts"
    /\ ret.err = ""
    /\ attr.slits.kind = "art"
    /\ attr.wv_maskslits = MaskArr("wvmask", "A_3_01", {1})
    /\ attr.wt_maskslits = MaskArr("wtmask", "A_1_01", {2})
    /\ MaskOf(Self) = {1, 2}

\* one getter and then the other, for the outcomes o1 of the wavelength
\* calibration and o2 of the tilts: the two results in the order of the calls
WvThenTilts(o1, o2) ==
    LET a == get_wv_calib(Self, o1) IN <<a, get_tilts(a.s, o2)>>

TiltsThenWv(o1, o2) ==
    LET b == get_tilts(Self, o2) IN <<b, get_wv_calib(b.s, o1)>>

BothReturn(pair) == pair[1].err = "" /\ pair[2].err = ""

\* C12: get_tilts needs the wavelength calibration: while wv_calib is None or
\* was never assigned every call of get_tilts raises and leaves the mask; once
\* wv_calib is set, get_tilts then get_wv_calib returns whenever get_wv_calib
\* then get_tilts does, and whenever both orders return they leave the same
\* masks
C12_OrderWhenWvCalibSet ==
    attr.slits.kind = "art" =>
        /\ attr.wv_calib.kind \in {"None", "Unset"} =>
              \A r \in Calls("tilts") :
                  r.err \in {"objs", "AttributeError"} /\ r.s.slitmask = slitmask
        /\ \A o1 \in WvOutcomes, o2 \in TiltOutcomes :
              LET wt == WvThenTilts(o1, o2)
                  tw == TiltsThenWv(o1, o2)
              IN  /\ (attr.wv_calib.kind \notin {"None", "Unset"} /\ BothReturn(wt))
                        => BothReturn(tw)
                  /\ (BothReturn(wt) /\ BothReturn(tw)) =>
                        /\ tw[2].s.slitmask = wt[2].s.slitmask
                        /\ tw[2].s.attr.wv_maskslits = wt[2].s.attr.wv_maskslits
                        /\ tw[2].s.attr.wt_maskslits = wt[2].s.attr.wt_maskslits

\* the slits were traced again after a run, their mask is empty and wv_calib is
\* still set: both orders return and leave a mask that is not empty
C12_Witness ==
    /\ ret.op = "slits"
    /\ ret.err = ""
    /\ attr.slits.kind = "art"
    /\ attr.wv_calib.kind = "art"
    /\ MaskOf(Self) = {}
    /\ \E o1 \in WvOutcomes, o2 \in TiltOutcomes :
          /\ BothReturn(WvThenTilts(o1, o2))
          /\ BothReturn(TiltsThenWv(o1, o2))
          /\ MaskOf(TiltsThenWv(o1, o2)[2].s) = {1, 2}

\* C12 as stated: wherever get_wv_calib then get_tilts returns, get_tilts then
\* get_wv_calib returns too and the slit mask is the same
C12_Original ==
    attr.slits.kind = "art" =>
        \A o1 \in WvOutcomes, o2 \in TiltOutcomes :
            LET wt == WvThenTilts(o1, o2)
                tw == TiltsThenWv(o1, o2)
            IN  BothReturn(wt) =>
                    (BothReturn(tw) /\ tw[2].s.slitmask = wt[2].s.slitmask)

\* the master key entries of the cache other than mkey are the same in s and t
OthersSame(s, t, mkey) ==
    /\ DOMAIN t.calib_dict \ {mkey} = DOMAIN s.calib_dict \ {mkey}
    /\ \A k2 \in DOMAIN s.calib_dict \ {mkey} : t.calib_dict[k2] = s.calib_dict[k2]

\* C13: the slots of two master keys never alias: _update_cache of a product
\* under the key K1 of a name leaves every other key K2 as it was, with the
\* same answer of _cached(P, K2); and a _cached(P, K1) that returns True leaves
\* every other key and the answer of _cached(P, K2) as they were
C13_KeysDoNotAlias ==
    \A K1 \in DOMAIN calib_dict, P \in MasterTypes :
        /\ \A name \in DOMAIN master_key_dict :
              master_key_dict[name] = K1 =>
                  LET u == _update_cache(Self, name, <<P>>, <<Art(P, K1, 0)>>)
                  IN  /\ u.err = ""
                      /\ u.s.calib_dict[K1][P] = Art(P, K1, 0)
                      /\ OthersSame(Self, u.s, K1)
                      /\ \A K2 \in Keys \ {K1} :
                            _cached(u.s, P, K2).r = _cached(Self, P, K2).r
        /\ LET c == _cached(Self, P, K1)
           IN  c.r => /\ OthersSame(Self, c.s, K1)
                      /\ \A K2 \in Keys \ {K1} :
                            _cached(c.s, P, K2).r = _cached(Self, P, K2).r

\* get_arc has stored the arc under its key while another key is registered
\* without an arc
C13_Witness ==
    /\ ret.op = "arc"
    /\ ret.err = ""
    /\ ~ret.hit
    /\ master_key_dict["arc"] = "A_3_01"
    /\ calib_dict["A_3_01"]["arc"] = Art("arc", "A_3_01", 0)
    /\ "A_1_01" \in DOMAIN calib_dict
    /\ "arc" \notin DOMAIN calib_dict["A_1_01"]
    /\ _cached(Self, "arc", "A_3_01").r
    /\ ~_cached(Self, "arc", "A_1_01").r

\* C14: for a master key K that is not in the cache and two products P and Q,
\* _cached(P, K) and then _cached(Q, K) both return False and leave K in the
\* cache, and a following _update_cache of P or of Q through a name that maps
\* to K stores the artifact without an error
C14_AbsentKeyTwoProducts ==
    \A K \in Keys \ DOMAIN calib_dict, P \in MasterTypes, Q \in MasterTypes :
        P # Q =>
            LET c1 == _cached(Self, P, K)
                c2 == _cached(c1.s, Q, K)
            IN  /\ ~c1.r
                /\ ~c2.r
                /\ K \in DOMAIN c2.s.calib_dict
                /\ \A name \in DOMAIN master_key_dict, X \in {P, Q} :
                      master_key_dict[name] = K =>
                          LET u == _update_cache(c2.s, name, <<X>>, <<Art(X, K, 0)>>)
                          IN  u.err = "" /\ u.s.calib_dict[K][X] = Art(X, K, 0)

\* two getters of one master key that was not in the cache have run: the first
\* registered the key and stored its product, the second stored its own
C14_Witness ==
    /\ used = 3
    /\ ret.op = "bpm"
    /\ ret.err = ""
    /\ ~ret.hit
    /\ DOMAIN calib_dict = {"A_1_01"}
    /\ DOMAIN calib_dict["A_1_01"] = {"bias", "bpm"}
    /\ calib_dict["A_1_01"]["bias"] = Art("bias", "A_1_01", 0)
    /\ calib_dict["A_1_01"]["bpm"].kind = "art"

\* every master key of the cache of s is one of t
KeysKept(s, t) == DOMAIN s.calib_dict \subseteq DOMAIN t.calib_dict

\* C15: a master key entry of the cache is never removed by a getter, by
\* _cached, by _update_cache or by set_config with rm_cache False: no step of
\* the program removes a key unless it is a set_config that returns with the
\* cache empty, and in every state _cached and _update_cache keep every key,
\* set_config with rm_cache False keeps the whole cache and set_config of a
\* frame with rm_cache True empties it
C15_KeysOnlyRemovedByRmCache ==
    [][/\ \/ DOMAIN calib_dict \subseteq DOMAIN calib_dict'
          \/ (ret'.op = "set_config" /\ ret'.err = "" /\ calib_dict' = NoEntries)
       /\ \A mkey \in Keys, P \in MasterTypes :
             KeysKept(Self, _cached(Self, P, mkey).s)
       /\ \A name \in DOMAIN master_key_dict, P \in MasterTypes :
             KeysKept(Self, _update_cache(Self, name, <<P>>,
                                          <<Art(P, master_key_dict[name], 0)>>).s)
       /\ \A fc \in ConfigArgs, det \in Dets :
             LET r == set_config(Self, FALSE, fc[1], det, fc[3], fc[2], fc[4])
             IN  IF fc[4] THEN r.s.calib_dict = NoEntries
                 ELSE r.s.calib_dict = calib_dict
       /\ \A rm \in BOOLEAN :
             set_config(Self, TRUE, 0, 1, DefaultPar, NoInt, rm).s.calib_dict = calib_dict
      ]_vars

\* a second set_config has returned and the cache still holds the keys and the
\* bias of the calls before it
C15_Witness ==
    /\ used = 3
    /\ ret.op = "set_config"
    /\ ret.err = ""
    /\ ctx.frame = 1
    /\ attr.msbias = None
    /\ DOMAIN calib_dict = {"A_1_01"}
    /\ DOMAIN calib_dict["A_1_01"] = {"bias"}

\* the attributes that hold the artifacts the getters read as their inputs:
\* bias, bad pixel mask, arc, tilt image, slits, wavelength calibration, tilts,
\* the two flats and the wavelength image
UpstreamNames == {"msbias", "msbpm", "msarc", "mstilt", "slits", "wv_calib",
                  "tilts_dict", "mspixelflat", "msillumflat", "mswave"}

\* C16: right after a set_config that returned, every artifact attribute a
\* getter reads as an input is None (or was never assigned) and the master
\* key table holds the key of the frame only
C16_ConfigWipes ==
    (ret.op = "set_config" /\ ret.err = "") =>
        /\ \A a \in UpstreamNames : attr[a].kind \in {"None", "Unset"}
        /\ DOMAIN master_key_dict = {"frame"}

\* the attributes the cache branch of the getter of a step assigns
HitAttrs(step) ==
    CASE step = "bias" -> {"msbias"}
      [] step = "bpm" -> {"msbpm"}
      [] step = "arc" -> {"msarc"}
      [] step = "tiltimg" -> {"mstilt"}
      [] step = "slits" -> {"slits"}
      [] step = "wv_calib" -> {"wv_calib", "wv_maskslits"}
      [] step = "tilts" -> {"tilts_dict", "wt_maskslits"}
      [] step = "flats" -> {"mspixelflat", "msillumflat"}
      [] step = "wave" -> {"mswave"}

\* the entry of master_key_dict the getter of a step assigns before it looks
\* into the cache
KeyNames(step) ==
    CASE step = "bias" -> {"bias"}
      [] step = "bpm" -> {"bpm"}
      [] step = "arc" -> {"arc"}
      [] step = "tiltimg" -> {"tilt"}
      [] step = "slits" -> {"trace"}
      [] step = "flats" -> {"flat"}
      [] OTHER -> {}

\* the master types the cache branch of the getter of a step reads, in the
\* order of the returned values
HitTypes(step) ==
    CASE step = "bias" -> <<"bias">>
      [] step = "bpm" -> <<"bpm">>
      [] step = "arc" -> <<"arc">>
      [] step = "tiltimg" -> <<"tiltimg">>
      [] step = "slits" -> <<"trace">>
      [] step = "wv_calib" -> <<"wavecalib">>
      [] step = "tilts" -> <<"tilts_dict">>
      [] step = "flats" -> <<"pixelflat", "illumflat">>
      [] step = "wave" -> <<"wave">>

\* the master key the cache branch of the getter of a step has looked under
HitKey(step, t) ==
    CASE step \in {"wv_calib", "wave"} -> t.master_key_dict["arc"]
      [] step = "tilts" -> t.master_key_dict["tilt"]
      [] OTHER -> t.master_key_dict[CHOOSE n \in KeyNames(step) : TRUE]

\* a call of the getter of a step on s with the result r, when it is answered
\* from the cache: it returns what the cache holds, calls no builder, and
\* changes nothing but its entry of master_key_dict and its attributes; with
\* orMask, get_wv_calib and get_tilts may also OR the cached mask into the
\* mask of the slits
HitClean(step, s, r, orMask) ==
    r.hit =>
        /\ r.err = ""
        /\ BuilderIO(r.io) = <<>>
        /\ r.value = [i \in 1..Len(HitTypes(step)) |->
                         s.calib_dict[HitKey(step, r.s)][HitTypes(step)[i]]]
        /\ r.s.calib_dict = s.calib_dict
        /\ r.s.ctx = s.ctx
        /\ r.s.ctl = s.ctl
        /\ \A a \in AttrNames \ HitAttrs(step) : r.s.attr[a] = s.attr[a]
        /\ DOMAIN r.s.master_key_dict = DOMAIN s.master_key_dict \cup KeyNames(step)
        /\ \A n \in DOMAIN s.master_key_dict \ KeyNames(step) :
              r.s.master_key_dict[n] = s.master_key_dict[n]
        /\ IF orMask /\ step \in {"wv_calib", "tilts"}
           THEN r.s.slitmask = [s.slitmask EXCEPT ![s.attr.slits.k] =
                                   @ \cup Contribution(step, r.s)]
           ELSE r.s.slitmask = s.slitmask

\* a build that completes with nothing on disk
BuiltOutcome == Outcome(FALSE, TRUE, {}, "none", FALSE)

\* the object after set_config for the arguments fc and then get_bpm, get_arc
\* and get_slits, the inputs of get_wv_calib
NextFrame(fc) ==
    LET s0 == set_config(Self, FALSE, fc[1], 1, fc[3], fc[2], fc[4]).s
        s1 == get_bpm(s0, BuiltOutcome).s
        s2 == get_arc(s1, BuiltOutcome).s
    IN  get_slits(s2, BuiltOutcome, FALSE, "None").s

\* the wavelength calibration is in the cache under some master key
WvCalibCached ==
    \E K \in DOMAIN calib_dict :
        "wavecalib" \in DOMAIN calib_dict[K] /\ calib_dict[K]["wavecalib"].kind = "art"

\* the calls of a getter without upstream inputs that find their product stored
\* under the master key they resolve are answered from the cache
StoredIsHit(step) ==
    \A r \in Calls(step) :
        KeyNames(step) \subseteq DOMAIN r.s.master_key_dict =>
            LET K == HitKey(step, r.s)
                P == HitTypes(step)[1]
            IN  (K \in DOMAIN calib_dict /\ P \in DOMAIN calib_dict[K]) => r.hit

\* C17: a getter that finds its product in the cache, in particular after a
\* set_config with rm_cache False for another frame that resolves to the same
\* master key, returns the cached artifact, instantiates no builder, calls no
\* load, build or save, and changes only its entry of the master key table and
\* its own attributes, except that get_wv_calib and get_tilts also OR the
\* cached mask into the mask of the slits
C17_CrossFrameHit ==
    /\ \A step \in StepNames : \A r \in Calls(step) : HitClean(step, Self, r, TRUE)
    /\ (ret.op = "set_config" /\ ret.err = "") =>
          \A step \in {"bias", "bpm", "arc", "tiltimg"} : StoredIsHit(step)
    /\ WvCalibCached =>
          \A nf \in {NextFrame(fc) : fc \in {c \in ConfigArgs : ~c[4]}} :
              \A r \in {get_wv_calib(nf, o) : o \in WvOutcomes} :
                  HitClean("wv_calib", nf, r, TRUE)

\* the arc was built for frame 0, set_config was called for frame 1, whose arc
\* has the same master key, and get_arc now returns the arc of the cache
C17_Witness ==
    /\ used = 3
    /\ ret.op = "set_config"
    /\ ret.err = ""
    /\ ctx.frame = 1
    /\ attr.msarc = None
    /\ \A r \in Calls("arc") :
          /\ r.hit
          /\ r.value = <<Art("arc", "A_3_01", 0)>>
          /\ r.s.attr.msarc = Art("arc", "A_3_01", 0)

\* C17 as stated: a cache hit changes nothing but the lookup and the getter's
\* attributes, also for get_wv_calib after a set_config for another frame
C17_Original ==
    WvCalibCached =>
        \A nf \in {NextFrame(fc) : fc \in {c \in ConfigArgs : ~c[4]}} :
            \A r \in {get_wv_calib(nf, o) : o \in WvOutcomes} :
                HitClean("wv_calib", nf, r, FALSE)

\* the value under the master type of the slits in the cache of s, None when
\* there is none
TraceSlot(s, mkey) ==
    IF mkey \in DOMAIN s.calib_dict /\ "trace" \in DOMAIN s.calib_dict[mkey]
    THEN s.calib_dict[mkey]["trace"]
    ELSE None

\* C18: when the edge detection raises in get_slits (whatever redo and
\* write_qa are), the edges are saved right after the failed tracing and as
\* the last external call, the call raises and returns nothing, and it stores
\* no slits under the master key: the slot holds what it held before, or the
\* empty placeholder of the lookup; and a call that returns slits it neither
\* found in the cache nor loaded is one whose edge detection completed
C18_CrashSavesEdges ==
    \A o \in SlitOutcomes, redo \in BOOLEAN, write_qa \in {"None", "True", "False"} :
        LET r == get_slits(Self, o, redo, write_qa)
            n == Len(r.io)
            mkey == r.s.master_key_dict["trace"]
        IN  /\ r.err = "crash_slits" =>
                  /\ n >= 2
                  /\ r.io[n] = <<"save", "edges">>
                  /\ r.io[n - 1] = <<"build", "edges">>
                  /\ r.value = <<>>
                  /\ ~r.hit
                  /\ r.s.attr.slits = None
                  /\ TraceSlot(r.s, mkey) \in {TraceSlot(Self, mkey), EmptyDict}
            /\ (/\ r.err = ""
                /\ ~r.hit
                /\ r.value # <<None>>
                /\ ~(ctl.reuse_masters /\ (o.found \/ o.edges))) => o.ok

\* the slits step of run_the_steps crashed in the edge detection: the edges
\* were saved, the run ended with the error and the cache holds no slits
C18_Witness ==
    /\ ret.op = "slits"
    /\ ret.err = "crash_slits"
    /\ run.status = "raised"
    /\ ret.io[Len(ret.io)] = <<"save", "edges">>
    /\ attr.slits = None
    /\ TraceSlot(Self, master_key_dict["trace"]) = EmptyDict

\* the getters that work through a builder object (get_bpm asks the
\* spectrograph)
BuilderSteps == StepNames \ {"bpm"}

\* an external call of the given kind is among the calls
Has(bio, kind) == \E i \in 1..Len(bio) : bio[i][1] = kind

\* the load of the getter of a step returns an artifact: from_master for the
\* slits, the load of the builder for the others
LoadReturns(step, s, o) ==
    IF step = "slits"
    THEN ~IsNone(from_master(s.ctl.reuse_masters, o.found, EmptyDict))
    ELSE ~IsNone(BuilderLoad(s.ctl.reuse_masters, o.found, EmptyDict))

\* the order of the builder calls bio of a getter that missed the cache and
\* returned, with the outcome o: a load comes first (after the instantiation),
\* a build only after a load that returned nothing, a save only with
\* save_masters; saveWithoutBuild is the set of steps that may save without a build
MissOrder(step, s, o, bio, saveWithoutBuild) ==
    /\ bio[1][1] \in {"new", "load"}
    /\ Has(bio, "load")
    /\ LoadReturns(step, s, o) => (~Has(bio, "build") /\ ~Has(bio, "save"))
    /\ \A i \in 1..Len(bio) :
          bio[i][1] = "build" => \E j \in 1..(i - 1) : bio[j][1] = "load"
    /\ \A i \in 1..Len(bio) :
          bio[i][1] = "save" =>
              /\ s.ctl.save_masters
              /\ step \notin saveWithoutBuild =>
                    \E j \in 1..(i - 1) : bio[j][1] = "build"

\* what the getter returned is what the cache now holds under its master key
ReturnedIsStored(step, r) ==
    LET mkey == HitKey(step, r.s)
    IN  /\ mkey \in DOMAIN r.s.calib_dict
        /\ \A i \in 1..Len(HitTypes(step)) :
              /\ HitTypes(step)[i] \in DOMAIN r.s.calib_dict[mkey]
              /\ r.s.calib_dict[mkey][HitTypes(step)[i]] = r.value[i]

\* the calls of the builder-backed getters that miss the cache, use their
\* builder and return follow the order and return what they stored
MissesInOrder(saveWithoutBuild) ==
    \A step \in BuilderSteps : \A o \in Outcomes(step) :
        \A r \in {Getter(step, Self, o)} :
            (~r.hit /\ r.err = "" /\ BuilderIO(r.io) # <<>>) =>
                /\ MissOrder(step, Self, o, BuilderIO(r.io), saveWithoutBuild)
                /\ ReturnedIsStored(step, r)

\* C19: on a cache miss a builder-backed getter loads, builds only if the load
\* returned nothing, saves only if persistence is enabled and, for every getter
\* but get_slits, only after a build, then stores in the cache and returns what
\* it stored; a loaded artifact is never rebuilt or saved again.  get_slits
\* saves the slits it derives from the edges also when the edges were loaded
\* from their master and not traced
C19_MissOrder == MissesInOrder({"slits"})

\* the wavelength image, last step of a run, was built and saved after its
\* load returned nothing, and the cache holds what was returned
C19_Witness ==
    /\ run.status = "done"
    /\ ret.op = "wave"
    /\ ~ret.hit
    /\ BuilderIO(ret.io) = <<<<"new", "wave">>, <<"load", "wave">>,
                             <<"build", "wave">>, <<"save", "wave">>>>
    /\ calib_dict[master_key_dict["arc"]]["wave"] = ret.value[1]
    /\ ret.value[1] = attr.mswave

\* C19 as stated: every builder-backed getter, get_slits too, saves only if a
\* build happened
C19_Original == MissesInOrder({})

\* the results a call of a getter can have in the current state, get_slits
\* with each of its arguments
AllCalls ==
    UNION {Calls(step) : step \in StepNames}
    \cup {get_slits(Self, o, redo, write_qa) :
            o \in SlitOutcomes, redo \in BOOLEAN, write_qa \in {"None", "True", "False"}}

\* the saves among the external calls io are saves of the edges in a call that
\* ended with the crash of the edge detection
OnlyCrashSaves(io, err) ==
    \A i \in 1..Len(io) :
        io[i][1] = "save" => (io[i] = <<"save", "edges">> /\ err = "crash_slits")

C21_ContextBySetConfig ==
    [][/\ ctx' # ctx => (ret'.op = "set_config" /\ ret'.err = "")
       /\ (ret'.op \in StepNames \cup {"run_the_steps"} \/ run.pc > 0) => ctx' = ctx
      ]_vars

\* a whole run of the default steps after set_config for frame 0 with the
\* pixel reference: the context is the one set_config made
C21_Witness ==
    /\ run.status = "raised"
    /\ ret.op = "wv_calib"
    /\ ctx = [frame |-> 0, det |-> 1, calib_ID |-> 1, par |-> PixelPar]

\* C22: run_the_steps calls the getters of the list of steps the object was
\* constructed with, each once and in the order of the list, whatever the
\* list: the call starts at the first step (and ends at once for the empty
\* list), each step of the call is the getter at the current position, and
\* when it returns the call goes on to the next position or ends after the
\* last; the list is the one given to the constructor, and the default list
\* bias, bpm, arc, tiltimg, slits, wv_calib, tilts, flats, wave when none is
C22_RunsTheList ==
    [][/\ (run.pc = 0 /\ ret'.op = "run_the_steps") =>
             run' = IF ctl.steps = <<>> THEN [pc |-> 0, status |-> "done"]
                    ELSE [pc |-> 1, status |-> "running"]
       /\ run.pc > 0 =>
             /\ run.pc <= Len(ctl.steps)
             /\ ret'.op = ctl.steps[run.pc]
             /\ ctl' = ctl
             /\ used' = used
             /\ ret'.err = "" =>
                   run' = IF run.pc = Len(ctl.steps) THEN [pc |-> 0, status |-> "done"]
                          ELSE [pc |-> run.pc + 1, status |-> "running"]
       /\ run'.pc > 0 => run'.pc \in {1, run.pc + 1}
       /\ \A l \in StepLists \ {NoSteps} :
             MultiSlitCalibrations(TRUE, FALSE, FALSE, l).ctl.steps = l
       /\ MultiSlitCalibrations(TRUE, FALSE, FALSE, NoSteps).ctl.steps =
             <<"bias", "bpm", "arc", "tiltimg", "slits", "wv_calib", "tilts", "flats",
               "wave">>
      ]_vars

\* run_the_steps of an object constructed with the steps tiltimg, bpm, slits
\* has ended after the three getters
C22_Witness ==
    /\ ctl.steps = <<"tiltimg", "bpm", "slits">>
    /\ run.status = "done"
    /\ ret.op = "slits"
    /\ ret.err = ""
    /\ attr.mstilt.kind = "art"
    /\ attr.msbpm.kind = "art"
    /\ attr.slits.kind = "art"
    /\ attr.msbias = None
    /\ attr.msarc = None

\* the calls of get_slits with each of its arguments
SlitCalls ==
    {get_slits(Self, o, redo, write_qa) :
        o \in SlitOutcomes, redo \in BOOLEAN, write_qa \in {"None", "True", "False"}}

NoBpm == _chk_objs(Self, <<"msbpm">>) # "True"

\* the write_qa get_slits works with: its argument, the attribute without one
WriteQA(write_qa) == IF write_qa = "None" THEN ctl.write_qa ELSE write_qa = "True"

\* C24: a get_slits called while the bad-pixel mask is unavailable returns
\* None with warnings, looks up no frames, instantiates no builder and leaves
\* the cache and the key table as they were, unless slit QA is asked for with
\* no QA path defined: that call raises before the mask is looked at
C24_NoBpmNoSlits ==
    NoBpm =>
        \A o \in SlitOutcomes, redo \in BOOLEAN, write_qa \in {"None", "True", "False"} :
            LET r == get_slits(Self, o, redo, write_qa)
            IN  IF WriteQA(write_qa) /\ ~ctl.qa_path
                THEN r.err = "qa_path" /\ r.value = <<>> /\ r.io = <<>> /\ r.s = Self
                ELSE /\ r.err = ""
                     /\ r.value = <<None>>
                     /\ r.warns > 0
                     /\ r.io = <<>>
                     /\ ~r.hit
                     /\ r.s = SetAttr(Self, "slits", None)
                     /\ r.s.calib_dict = calib_dict
                     /\ r.s.master_key_dict = master_key_dict

\* get_slits has returned None in a configuration whose cache holds a product
C24_Witness ==
    /\ NoBpm
    /\ Configured
    /\ ret.op = "slits"
    /\ ret.err = ""
    /\ ret.value = <<None>>
    /\ ret.io = <<>>
    /\ calib_dict # NoEntries
    /\ IsNone(attr.slits)

\* C24 as stated: without the mask no call of get_slits raises
C24_Original ==
    NoBpm => \A r \in SlitCalls : r.err = "" /\ r.value = <<None>>

\* from_master has a file to read: masters are reused and the file is there
SlitsOnDisk(o) == ctl.reuse_masters /\ o.found

\* the calls that build the trace image or detect the edges
TracingCalls == {<<"new", "traceimage">>, <<"build", "traceimage">>, <<"build", "edges">>}

\* C25: a get_slits that the cache does not answer calls from_master before
\* anything else; when from_master returns a slit-trace set no edge object is
\* made, no trace image is built and no edges are traced, and the set is
\* returned; the trace image and the edge tracing come only after a
\* from_master that returned None
C25_LoadBeforeTrace ==
    \A o \in SlitOutcomes, redo \in BOOLEAN, write_qa \in {"None", "True", "False"} :
        LET r == get_slits(Self, o, redo, write_qa)
        IN  (r.io # <<>> /\ ~r.hit) =>
                /\ Len(r.io) >= 2
                /\ r.io[1] = <<"find_frames", "trace">>
                /\ r.io[2] = <<"load", "trace">>
                /\ SlitsOnDisk(o) =>
                      /\ r.io = <<<<"find_frames", "trace">>, <<"load", "trace">>>>
                      /\ r.err = ""
                      /\ r.value = <<r.s.attr.slits>>
                      /\ r.s.attr.slits.kind = "art"
                /\ \A i \in 1..Len(r.io) :
                      r.io[i] \in TracingCalls =>
                          /\ i > 2
                          /\ ~SlitsOnDisk(o)
                          /\ IsNone(from_master(ctl.reuse_masters, o.found, EmptyDict))

\* get_slits has traced the edges after a from_master that found no file
\* although masters are reused
C25_Witness ==
    /\ ret.op = "slits"
    /\ ret.err = ""
    /\ ~ret.hit
    /\ ctl.reuse_masters
    /\ Len(ret.io) >= 6
    /\ ret.io[2] = <<"load", "trace">>
    /\ ret.io[6] = <<"build", "edges">>
    /\ attr.slits.kind = "art"

\* no entry of the cache d is an edge-detection object
NoEdgesIn(d) ==
    \A k \in DOMAIN d : \A t \in DOMAIN d[k] : t # "edges" /\ d[k][t].p # "edges"

\* the EdgeTraceSet was instantiated among the external calls io
MadeEdges(io) == \E i \in 1..Len(io) : io[i] = <<"new", "edges">>

\* C26: the cache never holds the edge-detection object, and a get_slits that
\* instantiated it (to trace the edges or to load them) and returned leaves
\* the attribute edges None and the cache without it
C26_EdgesDiscarded ==
    /\ NoEdgesIn(calib_dict)
    /\ \A r \in SlitCalls :
          /\ NoEdgesIn(r.s.calib_dict)
          /\ (r.err = "" /\ MadeEdges(r.io)) =>
                /\ IsNone(r.s.attr.edges)
                /\ r.s.attr.slits.kind = "art"
                /\ r.s.attr.slits.p = "trace"

\* get_slits has traced the edges without reusing masters and returned
C26_Witness ==
    /\ ret.op = "slits"
    /\ ret.err = ""
    /\ ~ctl.reuse_masters
    /\ \E i \in 1..Len(ret.io) : ret.io[i] = <<"build", "edges">>
    /\ IsNone(attr.edges)
    /\ \E k \in DOMAIN calib_dict :
          "trace" \in DOMAIN calib_dict[k] /\ calib_dict[k]["trace"] = attr.slits

\* the active calibration group has no tilt frame
NoTiltFrames == Len(find_frames("tilt", ctx.calib_ID)) = 0

\* C27: in a group without tilt frames get_tiltimg raises right after the
\* look-up of the frames: no master key is derived, the cache is not asked,
\* no builder is made, and the object (cache and key table included) is as
\* it was before the call; in a group with tilt frames that error is not raised
C27_NoTiltFramesFatal ==
    Configured =>
        \A r \in Calls("tiltimg") :
            IF NoTiltFrames
            THEN /\ r.err = "no_tilt_frames"
                 /\ r.value = <<>>
                 /\ r.io = <<<<"find_frames", "tilt">>>>
                 /\ r.s = Self
                 /\ r.s.calib_dict = calib_dict
                 /\ r.s.master_key_dict = master_key_dict
            ELSE /\ r.err # "no_tilt_frames"
                 /\ "tilt" \in DOMAIN r.s.master_key_dict

\* get_tiltimg has raised in a group without tilt frames whose cache holds a
\* product, and the key table has no key for the tilts
C27_Witness ==
    /\ Configured
    /\ NoTiltFrames
    /\ ret.op = "tiltimg"
    /\ ret.err = "no_tilt_frames"
    /\ calib_dict # NoEntries
    /\ DOMAIN master_key_dict # {}
    /\ "tilt" \notin DOMAIN master_key_dict

\* the products whose master key is that of a frame of their role: the step,
\* the entry of master_key_dict, the frame type looked up, the builder
KeyedRoles ==
    { [step |-> "bias", name |-> "bias", ftype |-> "bias", builder |-> "bias"],
      [step |-> "arc", name |-> "arc", ftype |-> "arc", builder |-> "arc"],
      [step |-> "slits", name |-> "trace", ftype |-> "trace", builder |-> "trace"],
      [step |-> "flats", name |-> "flat", ftype |-> "pixelflat", builder |-> "flat"] }

\* the results of the getter of a step, get_slits with each of its arguments
RoleCalls(step) == IF step = "slits" THEN SlitCalls ELSE Calls(step)

\* the master key of the role of kr in the active group: that of the first
\* frame of the role, that of the frame being calibrated without one
RoleKey(kr) ==
    LET rows == find_frames(kr.ftype, ctx.calib_ID)
    IN  IF rows = <<>> THEN master_key(ctx.frame, ctx.det)
        ELSE master_key(Head(rows), ctx.det)

\* the call with the external calls io got as far as the builder of kind
ReachedBuilder(io, kind) ==
    \E i \in 1..Len(io) : io[i] \in {<<"new", kind>>, <<"load", kind>>}

ReturnsSolution(r) == r.err = "" /\ r.value # <<>> /\ r.value[1].kind = "art"

\* C29: a get_wv_calib that returns a wavelength solution has, before it
\* returns, OR-ed the mask of that solution into the mask of the slits that
\* are current (the same object before and after the call): on a hit the mask
\* the cache holds with the solution, after a load or a build the mask the
\* builder makes, which is then stored with the solution
C29_WvMaskOred ==
    \A o \in WvOutcomes :
        LET r == get_wv_calib(Self, o)
        IN  ReturnsSolution(r) =>
                LET mkey == master_key_dict["arc"]
                    msk == r.s.attr.wv_maskslits
                IN  /\ attr.slits.kind = "art"
                    /\ r.s.attr.slits = attr.slits
                    /\ r.s.attr.wv_calib = r.value[1]
                    /\ msk.kind = "mask"
                    /\ r.s.calib_dict[mkey]["wavecalib"] = r.value[1]
                    /\ r.s.calib_dict[mkey]["wvmask"] = msk
                    /\ r.hit => msk = calib_dict[mkey]["wvmask"]
                    /\ ~r.hit => msk.m = o.m
                    /\ msk.m \subseteq MaskOf(r.s)
                    /\ MaskOf(r.s) = MaskOf(Self) \cup msk.m

\* get_wv_calib has answered from the cache with a solution whose mask flags
\* a slit, and the mask of the slits has that flag
C29_Witness ==
    /\ ret.op = "wv_calib"
    /\ ret.err = ""
    /\ ret.hit
    /\ ret.value[1].kind = "art"
    /\ attr.slits.kind = "art"
    /\ attr.wv_maskslits.kind = "mask"
    /\ attr.wv_maskslits.m # {}
    /\ attr.wv_maskslits.m \subseteq MaskOf(Self)

\* what get_tilts asks of get_tiltimg in the object s: the tilt image is
\* there and the master key of the tilts is in the key table
TiltimgDone(s) ==
    /\ s.attr.mstilt.kind \notin {"Unset", "None"}
    /\ "tilt" \in DOMAIN s.master_key_dict

\* the bad-pixel mask and the slits of the object s are built
InputsBuilt(s) == s.attr.msbpm.kind = "art" /\ s.attr.slits.kind = "art"

\* the result r of get_tilts is a raise that built nothing, stored nothing and
\* left the object s it was called on as it was
TiltsRefused(s, r) ==
    /\ r.err # ""
    /\ r.value = <<>>
    /\ r.io = <<>>
    /\ r.s.calib_dict = s.calib_dict
    /\ r.s = s

\* C30: get_tilts raises, building and storing nothing, unless get_tiltimg
\* has returned since the last set_config.  TiltimgDone is false after the
\* construction and after every set_config that returns, and only a
\* get_tiltimg that returns makes it true; while it is false every get_tilts
\* is refused.  After a run that produced the tilt image, a set_config (mstilt
\* and wv_calib are still those of the run) and then get_bpm, get_arc and
\* get_slits, get_tilts is refused for the missing master key of the tilts
C30_TiltsNeedTiltimg ==
    /\ used = 0 => ~TiltimgDone(Self)
    /\ \A fc \in ConfigArgs, det \in Dets :
          ~TiltimgDone(set_config(Self, FALSE, fc[1], det, fc[3], fc[2], fc[4]).s)
    /\ \A rm \in BOOLEAN :
          TiltimgDone(set_config(Self, TRUE, 0, 1, DefaultPar, NoInt, rm).s)
              => TiltimgDone(Self)
    /\ \A r \in AllCalls \ Calls("tiltimg") : TiltimgDone(r.s) => TiltimgDone(Self)
    /\ \A r \in Calls("tiltimg") :
          (TiltimgDone(r.s) /\ ~TiltimgDone(Self)) => r.err = ""
    /\ ~TiltimgDone(Self) => \A r \in Calls("tilts") : TiltsRefused(Self, r)
    /\ (TiltimgDone(Self) /\ attr.mstilt.kind = "art" /\ attr.wv_calib.kind = "art") =>
          \A p \in {<<fc[4], NextFrame(fc)>> : fc \in ConfigArgs} :
              LET nf == p[2]
              IN  /\ nf.attr.mstilt = attr.mstilt
                  /\ nf.attr.wv_calib = attr.wv_calib
                  /\ p[1] => InputsBuilt(nf)
                  /\ \A r \in {get_tilts(nf, o) : o \in TiltOutcomes} :
                        /\ TiltsRefused(nf, r)
                        /\ InputsBuilt(nf) => r.err = "tilt_key"

\* a run has produced the tilt image and the tilts, set_config has been
\* called for another frame, and get_tilts has raised: the tilt image of the
\* run is still there, the master key of the tilts is not
C30_Witness ==
    /\ used = 3
    /\ ret.op = "set_config"
    /\ ret.err = ""
    /\ attr.mstilt.kind = "art"
    /\ attr.wv_calib.kind = "art"
    /\ IsNone(attr.tilts_dict)
    /\ "tilt" \notin DOMAIN master_key_dict
    /\ \E K \in DOMAIN calib_dict : "tilts_dict" \in DOMAIN calib_dict[K]
    /\ \A r \in Calls("tilts") : TiltsRefused(Self, r)

\* a user flat file is configured: par['flatfield']['frame'] != 'pixelflat'
UserFlatConfigured == ctx.par.flatframe # "pixelflat"

\* the flats under the key of the flats in the cache of the object s
StoredFlats(s) ==
    LET mkey == s.master_key_dict["flat"]
    IN  IF mkey \in DOMAIN s.calib_dict
        THEN {t \in DOMAIN s.calib_dict[mkey] : t \in {"pixelflat", "illumflat"}}
        ELSE {}

\* the get_flats with the result r, made on the object s, looked up the
\* pixelflat frames, and the cache of s held no flat under the key of the
\* flats but, at most, the empty dicts of an existence check
NoFlatCached(s, r) ==
    /\ r.io # <<>>
    /\ r.io[1] = <<"find_frames", "pixelflat">>
    /\ LET mkey == r.s.master_key_dict["flat"]
       IN  mkey \in DOMAIN s.calib_dict =>
               \A t \in DOMAIN s.calib_dict[mkey] :
                   t \in {"pixelflat", "illumflat"} => s.calib_dict[mkey][t] = EmptyDict

\* what get_flats does with a user flat file once it has its builder: the
\* file at the literal path before the one in the master directory, its data
\* as the pixel flat returned and stored, no illumination flat, no run of the
\* builder, and the error when the file is in neither place
UserFlatOnMiss ==
    UserFlatConfigured =>
        \A o \in FlatOutcomes :
            LET r == get_flats(Self, o)
            IN  (\E i \in 1..Len(r.io) : r.io[i] = <<"load", "flat">>) =>
                    IF o.user = "none"
                    THEN /\ r.err = "userflat"
                         /\ r.value = <<>>
                         /\ \A i \in 1..Len(r.io) : r.io[i][1] \notin {"open", "build", "save"}
                         /\ \A t \in StoredFlats(r.s) :
                               r.s.calib_dict[r.s.master_key_dict["flat"]][t] = EmptyDict
                    ELSE LET path == IF o.user = "masterdir" THEN "masterdir" ELSE "literal"
                             mkey == r.s.master_key_dict["flat"]
                         IN  /\ r.err = ""
                             /\ r.io[Len(r.io)] = <<"open", path>>
                             /\ \A i \in 1..Len(r.io) : r.io[i][1] \notin {"build", "save"}
                             /\ r.value = <<UserFlat(path), None>>
                             /\ r.s.attr.mspixelflat = UserFlat(path)
                             /\ IsNone(r.s.attr.msillumflat)
                             /\ r.s.calib_dict[mkey]["pixelflat"] = UserFlat(path)
                             /\ IsNone(r.s.calib_dict[mkey]["illumflat"])

\* C31: with a user flat file configured and no flat in the cache, a
\* get_flats that finds the file in neither place raises and leaves the cache
\* without an entry for the flats; one that finds it returns its data as the
\* pixel flat with no illumination flat and runs no builder
C31_UserFlat ==
    UserFlatConfigured =>
        \A o \in FlatOutcomes :
            LET r == get_flats(Self, o)
            IN  NoFlatCached(Self, r) =>
                    IF o.user = "none"
                    THEN r.err = "userflat" /\ StoredFlats(r.s) = {}
                    ELSE /\ r.err = ""
                         /\ r.value = <<UserFlat(flat_file(o.user)), None>>
                         /\ \A i \in 1..Len(r.io) : r.io[i][1] # "build"

\* slit tweaking is requested and masters are saved
TweakAndSave == ctx.par.tweak_slits /\ ctl.save_masters

\* the external calls io hold the call ev
Called(io, ev) == \E i \in 1..Len(io) : io[i] = ev

\* the call ev1 comes before the call ev2 in io
CalledBefore(io, ev1, ev2) ==
    \E i, j \in 1..Len(io) : i < j /\ io[i] = ev1 /\ io[j] = ev2

\* C32: with slit tweaking requested and masters saved, a get_flats that
\* returns has written the slits again exactly when it ran the flat builder,
\* after the save of the flats; a call answered by the cache, by a loaded
\* master or by a user file does not write them
C32_ResaveOnlyWhenBuilt ==
    TweakAndSave =>
        \A r \in Calls("flats") :
            r.err = "" =>
                /\ Called(r.io, <<"save", "trace">>) <=> Called(r.io, <<"build", "flat">>)
                /\ Called(r.io, <<"save", "trace">>) =>
                      /\ CalledBefore(r.io, <<"build", "flat">>, <<"save", "flat">>)
                      /\ CalledBefore(r.io, <<"save", "flat">>, <<"save", "trace">>)
                      /\ r.s.attr.slits.kind = "art"
                /\ (r.hit \/ Called(r.io, <<"open", "literal">>)
                         \/ Called(r.io, <<"open", "masterdir">>))
                      => ~Called(r.io, <<"save", "trace">>)

\* the flats step of a run with slit tweaking and saving has returned flats
\* loaded from their master, and the slits were not written again
C32_Witness ==
    /\ TweakAndSave
    /\ ret.op = "flats"
    /\ ret.err = ""
    /\ Called(ret.io, <<"load", "flat">>)
    /\ ~Called(ret.io, <<"build", "flat">>)
    /\ ~Called(ret.io, <<"save", "trace">>)
    /\ attr.mspixelflat.kind = "art"
    /\ attr.mspixelflat.p = "pixelflat"

\* C32 as stated: every get_flats that returns flats with slit tweaking
\* requested and masters saved has written the slits again
C32_Original ==
    TweakAndSave =>
        \A r \in Calls("flats") :
            (r.err = "" /\ Called(r.io, <<"find_frames", "pixelflat">>)) =>
                Called(r.io, <<"save", "trace">>)

\* the frames set_config is called with and the groups it is given; NoInt is
\* calib_id=None
ConfigFrames == {0, 1, 2}
ConfigGroups == {NoInt, 1, 2, 3}

\* the frame is listed for more than one calibration group
InSeveralGroups(frame) == Cardinality({g \in 1..3 : InGroup(frame, g)}) > 1

\* C33: a set_config without calib_id sets the group to the first one listed
\* for the frame and warns once when the frame is listed for several; with a
\* calib_id the group is that id, listed for the frame or not, and there is
\* no such warning; neither raises (the only other warning is that of rm_cache)
C33_GroupOfFrame ==
    \A frame \in ConfigFrames, g \in ConfigGroups, rm \in BOOLEAN :
        LET r == set_config(Self, FALSE, frame, 1, DefaultPar, g, rm)
            cache_warn == IF rm THEN 1 ELSE 0
        IN  /\ r.err = ""
            /\ r.s.ctx.frame = frame
            /\ IF g = NoInt
               THEN /\ r.s.ctx.calib_ID = Head(CalibCol[frame])
                    /\ InGroup(frame, r.s.ctx.calib_ID)
                    /\ r.warns = cache_warn + (IF InSeveralGroups(frame) THEN 1 ELSE 0)
               ELSE /\ r.s.ctx.calib_ID = g
                    /\ r.warns = cache_warn

\* set_config has returned with a warning for the frame of groups 1 and 2,
\* and the group is 1
C33_Witness ==
    /\ ret.op = "set_config"
    /\ ret.err = ""
    /\ ret.warns = 1
    /\ ctx.frame = 2
    /\ InSeveralGroups(ctx.frame)
    /\ ctx.calib_ID = 1
    /\ calib_dict # NoEntries

\* the entry of master_key_dict under whose master key the getter of a step
\* stores its products
StoreName(step) ==
    CASE step = "bias" -> "bias"
      [] step = "bpm" -> "bpm"
      [] step \in {"arc", "wv_calib", "wave"} -> "arc"
      [] step \in {"tiltimg", "tilts"} -> "tilt"
      [] step = "slits" -> "trace"
      [] step = "flats" -> "flat"

\* the (master key, product type) pairs of the cache cd2 that cd1 does not
\* hold with the same value
Stored(cd1, cd2) ==
    {<<k, t>> \in (DOMAIN cd2) \X MasterTypes :
        /\ t \in DOMAIN cd2[k]
        /\ (k \in DOMAIN cd1 /\ t \in DOMAIN cd1[k]) => cd1[k][t] # cd2[k][t]}

\* a KeyError of a getter that made no external call comes from a lookup of
\* master_key_dict or of the tilts dictionary, before anything is stored
KeyLookupFails(step) ==
    \/ step = "bpm" /\ ctx.par.bpm_usebias /\ "bias" \notin DOMAIN master_key_dict
    \/ step = "wave" /\ ("arc" \notin DOMAIN master_key_dict
                         \/ attr.tilts_dict.kind # "art")

\* C34: whatever the calls made so far, no getter called in the current state
\* fails in a store to the cache: a KeyError is one of a lookup made before
\* any external call, and every entry the call adds or changes is under a
\* master key that is registered in the cache and, when it holds a product, is
\* the key of the getter in master_key_dict
C34_StoreKeyRegistered ==
    \A step \in StepNames :
        \A r \in RoleCalls(step) :
            /\ r.err = "KeyError" => (r.io = <<>> /\ KeyLookupFails(step))
            /\ \A kt \in Stored(calib_dict, r.s.calib_dict) :
                  /\ kt[1] \in DOMAIN r.s.calib_dict
                  /\ r.s.calib_dict[kt[1]][kt[2]].kind # "Empty" =>
                        /\ StoreName(step) \in DOMAIN r.s.master_key_dict
                        /\ kt[1] = r.s.master_key_dict[StoreName(step)]

\* get_wv_calib has built the solution and stored it, with its mask, under the
\* master key that get_arc registered in the cache
C34_Witness ==
    /\ ret.op = "wv_calib"
    /\ ret.err = ""
    /\ ~ret.hit
    /\ ret.io # <<>>
    /\ "arc" \in DOMAIN master_key_dict
    /\ master_key_dict["arc"] \in DOMAIN calib_dict
    /\ {"arc", "wavecalib", "wvmask"} \subseteq DOMAIN calib_dict[master_key_dict["arc"]]
    /\ calib_dict[master_key_dict["arc"]]["wavecalib"] = ret.value[1]

\* the two product types of the cache that are stored together
PairedTypes ==
    {<<"pixelflat", "illumflat">>, <<"wavecalib", "wvmask">>, <<"tilts_dict", "wtmask">>}

\* a pair is stored whole: a getter that returns without error leaves, under
\* every master key, both types of a pair it stored one of
PairsStoredWhole ==
    \A step \in StepNames :
        \A r \in RoleCalls(step) :
            \A kt \in Stored(calib_dict, r.s.calib_dict) :
                \A p \in PairedTypes :
                    (kt[2] \in {p[1], p[2]} /\ r.s.calib_dict[kt[1]][kt[2]].kind # "Empty")
                        => {p[1], p[2]} \subseteq DOMAIN r.s.calib_dict[kt[1]]

\* the cache cd holds the types of every pair together
Paired(cd) ==
    \A k \in DOMAIN cd :
        \A p \in PairedTypes : (p[1] \in DOMAIN cd[k]) <=> (p[2] \in DOMAIN cd[k])

\* C35: in every reachable state, under every master key of the cache, the
\* two types of a pair are both present or both absent
C35_Paired == Paired(calib_dict)

\* only a getter that raises separates a pair: a call that returns leaves
\* every pair whole when it found them whole
PairsSplitOnlyByRaise ==
    Paired(calib_dict) =>
        \A step \in StepNames :
            \A r \in RoleCalls(step) : r.err = "" => Paired(r.s.calib_dict)

\* the master key get_slits looks the slits up under in the current state
TraceKey == RoleKey([step |-> "slits", name |-> "trace", ftype |-> "trace",
                     builder |-> "trace"])

\* a slit-trace artifact is cached under the master key of the trace frames
SlitsCached ==
    /\ Configured
    /\ TraceKey \in DOMAIN calib_dict
    /\ "trace" \in DOMAIN calib_dict[TraceKey]
    /\ calib_dict[TraceKey]["trace"].kind = "art"

\* C36: with a slit-trace artifact in the cache, a get_slits with redo=True
\* never returns it: a call that returns slits has gone through the load of
\* the master file (and the edge tracing when nothing was loaded), returns an
\* object other than the cached one and leaves that object in the cache entry;
\* a call with redo=False that returns slits returns the cached artifact, the
\* entry unchanged, without loading or tracing
C36_RedoBypassesCache ==
    SlitsCached =>
        LET cached == calib_dict[TraceKey]["trace"]
        IN  \A o \in SlitOutcomes, write_qa \in {"None", "True", "False"} :
                /\ LET r == get_slits(Self, o, TRUE, write_qa)
                   IN  /\ ~r.hit
                       /\ r.value # <<cached>>
                       /\ (r.err = "" /\ r.value # <<None>>) =>
                             /\ Called(r.io, <<"load", "trace">>)
                             /\ r.value[1].kind = "art"
                             /\ r.value[1].gen = cached.gen + 1
                             /\ r.s.calib_dict[TraceKey]["trace"] = r.value[1]
                             /\ r.s.attr.slits = r.value[1]
                             /\ (~Called(r.io, <<"build", "edges">>)
                                 /\ ~Called(r.io, <<"load", "edges">>))
                                   => ctl.reuse_masters /\ o.found
                       /\ r.err # "" => r.s.calib_dict = calib_dict
                /\ LET r == get_slits(Self, o, FALSE, write_qa)
                   IN  (r.err = "" /\ r.value # <<None>>) =>
                          /\ r.hit
                          /\ r.value = <<cached>>
                          /\ r.s.calib_dict = calib_dict
                          /\ r.s.attr.slits = cached
                          /\ ~Called(r.io, <<"load", "trace">>)
                          /\ ~Called(r.io, <<"build", "edges">>)

\* get_slits has returned slits made over cached ones, and they are the entry
\* of the cache
C36_Witness ==
    /\ ret.op = "slits"
    /\ ret.err = ""
    /\ ~ret.hit
    /\ ret.value[1].kind = "art"
    /\ ret.value[1].gen = 1
    /\ Called(ret.io, <<"build", "edges">>)
    /\ SlitsCached
    /\ calib_dict[TraceKey]["trace"] = ret.value[1]

\* set_config has just returned: no getter was called since
JustConfigured == ret.op = "set_config" /\ ret.err = ""

\* the object after get_bpm, get_arc, get_slits and get_tiltimg, each one
\* building its product, called on s: every input of get_tilts and get_wave
\* but the wavelength calibration is fetched
FetchAllButWvCalib(s) ==
    LET s1 == get_bpm(s, BuiltOutcome).s
        s2 == get_arc(s1, BuiltOutcome).s
        s3 == get_slits(s2, BuiltOutcome, FALSE, "None").s
    IN  get_tiltimg(s3, BuiltOutcome).s

\* the getters of the products made from other products
DownstreamSteps == {"slits", "wv_calib", "tilts", "flats", "wave"}

\* right after set_config the inputs that _reset_internals clears are missing:
\* no getter of a product made from other products gets to a builder
ClearedInputsRequired ==
    JustConfigured =>
        \A step \in DownstreamSteps :
            \A r \in RoleCalls(step) :
                \A i \in 1..Len(r.io) : r.io[i][1] \notin {"new", "load", "build", "save"}

\* C37: when no get_wv_calib is called after a set_config, get_tilts and
\* get_wave do not go on with a wavelength calibration: after the getters of
\* the other inputs, get_tilts instantiates no builder and stores no tilts,
\* and get_wave after it instantiates no builder and stores no wavelength image
C37_NoStaleInput ==
    JustConfigured =>
        LET s4 == FetchAllButWvCalib(Self)
            t == get_tilts(s4, BuiltOutcome)
            w == get_wave(t.s, BuiltOutcome)
        IN  /\ ~Called(t.io, <<"new", "tilts">>)
            /\ ~Called(w.io, <<"new", "wave">>)
            /\ \A kt \in Stored(calib_dict, w.s.calib_dict) :
                  kt[2] \notin {"tilts_dict", "wtmask", "wave"}
                  \/ w.s.calib_dict[kt[1]][kt[2]].kind = "Empty"

\* the (master key, product type) pairs of the cache cd1 that cd2 lacks
Removed(cd1, cd2) ==
    {<<k, t>> \in (DOMAIN cd1) \X MasterTypes :
        t \in DOMAIN cd1[k] /\ (k \notin DOMAIN cd2 \/ t \notin DOMAIN cd2[k])}

\* the call r of get_bpm looked up no raw frames and left every entry of the
\* cache as it was but that of 'bpm' under the master key of the frame
OnlyBpmSlot(r) ==
    /\ \A i \in 1..Len(r.io) : r.io[i][1] # "find_frames"
    /\ Removed(calib_dict, r.s.calib_dict) = {}
    /\ \A kt \in Stored(calib_dict, r.s.calib_dict) :
          kt = <<master_key(ctx.frame, ctx.det), "bpm">>

\* get_bpm keeps to its slot when it does not consult the bias slot, or finds
\* the bias there
BpmSlotUnlessBiasMissing ==
    \A r \in Calls("bpm") :
        (\/ ~ctx.par.bpm_usebias
         \/ /\ "bias" \in DOMAIN master_key_dict
            /\ master_key_dict["bias"] \in DOMAIN calib_dict
            /\ "bias" \in DOMAIN calib_dict[master_key_dict["bias"]])
            => OnlyBpmSlot(r)

\* C38: a get_bpm called in the current state looks up no raw frames and
\* adds, removes or changes no entry of the cache other than 'bpm' under the
\* master key of the frame being calibrated, bpm_usebias set or not
C38_BpmSlotOnly == \A r \in Calls("bpm") : OnlyBpmSlot(r)

\* the parameter sets set_config is called with
ConfigPars == {DefaultPar, PixelPar, UseBiasPar}

\* C39: a set_config whose frame argument has a length raises the fatal error
\* of the frame argument, without a warning or an external call, and leaves
\* the object as it was: frame, detector, group and parameters, the key table,
\* the artifact attributes, the cache and the slit masks, whatever the other
\* arguments are, rm_cache True included
C39_ListFrameRejected ==
    \A frame \in ConfigFrames, g \in ConfigGroups, det \in Dets, p \in ConfigPars,
       rm \in BOOLEAN :
        LET r == set_config(Self, TRUE, frame, det, p, g, rm)
        IN  /\ r.err = "frame_arg"
            /\ r.warns = 0
            /\ r.io = <<>>
            /\ r.s.ctx = ctx
            /\ r.s.master_key_dict = master_key_dict
            /\ r.s.attr = attr
            /\ r.s.calib_dict = calib_dict
            /\ r.s.slitmask = slitmask
            /\ r.s = Self

\* set_config with a frame argument that has a length has raised, on an
\* object that holds a configuration, keys, artifacts and a cache
C39_Witness ==
    /\ ret.op = "set_config"
    /\ ret.err = "frame_arg"
    /\ Configured
    /\ ctx.frame # NoInt
    /\ calib_dict # NoEntries
    /\ "bpm" \in DOMAIN master_key_dict
    /\ attr.msbpm.kind = "art"

=============================================================================
